---------------------------- MODULE Spec2Model ----------------------------
(***************************************************************************)
(* A model of the rules engine of mlpstorage (src/mlpstorage/rules.py):    *)
(* the run data model, the rule checkers, BenchmarkVerifier and the        *)
(* dataset sizing function calculate_training_data_size; and of the        *)
(* accelerator search of src/scripts/training/evaluate.py.                 *)
(*                                                                         *)
(* Conventions.                                                            *)
(*   - A Python Optional value is a sequence: <<>> is None, <<v>> is v.    *)
(*   - A Python dict is a function whose DOMAIN is the set of its keys.    *)
(*   - A Python int that can exceed the range of the model checker's       *)
(*     integers (byte counts) is a "Big": the little-endian sequence of    *)
(*     its decimal digits, zero being the empty sequence.                  *)
(*   - A raised exception is the name of its class; "none" is no raise.    *)
(*   - The empty dict and None are both the empty sequence; no input of    *)
(*     the model has a null section where the code expects a dict.        *)
(***************************************************************************)
EXTENDS Integers, Sequences, FiniteSets, TLC

VARIABLES
    szcall,     \* arguments of the latest call of calculate_training_data_size
    szret,      \* what that call returned or raised, and what it logged
    szprev,     \* the call before it and its outcome, as its caller holds them
    runs,       \* the BenchmarkRun objects, by object id: None or one run
    verifier,   \* the BenchmarkVerifier of the caller: None or one verifier
    pc,         \* position of the program: "idle", or "run_checks" inside verify
    ck,         \* inside run_checks: index of the next check method
    outcome,    \* the latest constructor or verify call and what it gave its caller
    log,        \* what run_checks logged in the latest verify call
    clusterinfo, \* the ClusterInformation object of a caller: None or one object
    search      \* Evaluator.evaluate: its locals and its position in the loop

szvars == <<szcall, szret, szprev>>
vfvars == <<runs, verifier, pc, ck, outcome, log>>
exvars == <<clusterinfo, search>>
vars == <<szvars, vfvars, exvars>>

None == <<>>
Some(x) == <<x>>

\* object ids of the BenchmarkRun objects a caller may hold
MaxRuns == 2
RunIds == 1..MaxRuns

NoOutcome ==
    [call |-> "none", raised |-> "none", sources |-> <<FALSE, FALSE>>,
     arguments |-> <<>>, run |-> 0, category |-> "NONE", returned |-> <<>>]

\* Evaluator.evaluate has not been called
NoSearch ==
    [pc |-> "idle", model |-> "", num_accelerators |-> 0, announced |-> <<>>,
     cur_acc |-> 0, min_acc |-> 0, max_acc |-> 0, flag |-> 0, score |-> 0]

\* no run constructed, no verifier constructed, nothing called
VerifierInit ==
    /\ runs = [r \in RunIds |-> None]
    /\ verifier = None
    /\ pc = "idle"
    /\ ck = 0
    /\ outcome = NoOutcome
    /\ log = <<>>
    /\ clusterinfo = None
    /\ search = NoSearch

(***************************************************************************)
(* Python's unbounded non-negative integers                                *)
(***************************************************************************)
RECURSIVE BigOfInt(_)
BigOfInt(n) == IF n = 0 THEN <<>> ELSE <<n % 10>> \o BigOfInt(n \div 10)

RECURSIVE IntOfBig(_)
IntOfBig(b) == IF b = <<>> THEN 0 ELSE b[1] + 10 * IntOfBig(Tail(b))

\* without the zeros at the most significant end
BigStrip(b) ==
    IF b = <<>> THEN <<>>
    ELSE IF b[Len(b)] # 0 THEN b
    ELSE LET nonzero == {i \in 1..Len(b) : b[i] # 0} IN
         IF nonzero = {} THEN <<>>
         ELSE SubSeq(b, 1, CHOOSE i \in nonzero : \A j \in nonzero : j <= i)

BigDigit(a, i) == IF i <= Len(a) THEN a[i] ELSE 0

\* the digits of two adjacent ranges, the lower first, and the carry out of
\* the higher
BigJoin(low, high) ==
    [digits |-> low.digits \o high.digits, carry |-> high.carry]

\* digits lo..hi of a + b with the carry c into digit lo, and the carry out;
\* the range is halved so that the evaluation nests to the depth of log(hi)
RECURSIVE BigAddC(_, _, _, _, _)
RECURSIVE BigAddHigh(_, _, _, _, _)
BigAddC(a, b, lo, hi, c) ==
    IF lo > hi THEN [digits |-> <<>>, carry |-> c]
    ELSE IF lo = hi
    THEN [digits |-> <<(BigDigit(a, lo) + BigDigit(b, lo) + c) % 10>>,
          carry |-> (BigDigit(a, lo) + BigDigit(b, lo) + c) \div 10]
    ELSE BigAddHigh(a, b, (lo + hi) \div 2, hi, BigAddC(a, b, lo, (lo + hi) \div 2, c))

BigAddHigh(a, b, mid, hi, low) ==
    BigJoin(low, BigAddC(a, b, mid + 1, hi, low.carry))

BigCarried(sum) ==
    IF sum.carry = 0 THEN sum.digits ELSE sum.digits \o <<sum.carry>>

BigAdd(a, b) ==
    BigCarried(BigAddC(a, b, 1, IF Len(a) < Len(b) THEN Len(b) ELSE Len(a), 0))

\* -1, 0, 1 as a < b, a = b, a > b on the digits lo..hi, for a and b of the
\* same length: the most significant digit in which they differ decides
RECURSIVE BigCmpFrom(_, _, _, _)
BigCmpFrom(a, b, lo, hi) ==
    IF lo > hi THEN 0
    ELSE IF a[hi] < b[hi] THEN -1
    ELSE IF a[hi] > b[hi] THEN 1
    ELSE IF lo = hi THEN 0
    ELSE IF SubSeq(a, (lo + hi) \div 2 + 1, hi) = SubSeq(b, (lo + hi) \div 2 + 1, hi)
    THEN BigCmpFrom(a, b, lo, (lo + hi) \div 2)
    ELSE BigCmpFrom(a, b, (lo + hi) \div 2 + 1, hi - 1)

BigCmp(a, b) ==
    IF Len(a) < Len(b) THEN -1
    ELSE IF Len(a) > Len(b) THEN 1
    ELSE BigCmpFrom(a, b, 1, Len(a))

BigLess(a, b) == BigCmp(a, b) = -1

\* digits lo..hi of a - b for a >= b, with the borrow c from digit lo
RECURSIVE BigSubC(_, _, _, _, _)
RECURSIVE BigSubHigh(_, _, _, _, _)
BigSubC(a, b, lo, hi, c) ==
    IF lo > hi THEN [digits |-> <<>>, carry |-> c]
    ELSE IF lo = hi
    THEN IF a[lo] - BigDigit(b, lo) - c < 0
         THEN [digits |-> <<a[lo] - BigDigit(b, lo) - c + 10>>, carry |-> 1]
         ELSE [digits |-> <<a[lo] - BigDigit(b, lo) - c>>, carry |-> 0]
    ELSE BigSubHigh(a, b, (lo + hi) \div 2, hi, BigSubC(a, b, lo, (lo + hi) \div 2, c))

BigSubHigh(a, b, mid, hi, low) ==
    BigJoin(low, BigSubC(a, b, mid + 1, hi, low.carry))

BigSub(a, b) == BigStrip(BigSubC(a, b, 1, Len(a), 0).digits)

\* digits lo..hi of a * d for a digit d, with the carry c into digit lo
RECURSIVE BigMulDigitC(_, _, _, _, _)
RECURSIVE BigMulDigitHigh(_, _, _, _, _)
BigMulDigitC(a, d, lo, hi, c) ==
    IF lo > hi THEN [digits |-> <<>>, carry |-> c]
    ELSE IF lo = hi
    THEN [digits |-> <<(a[lo] * d + c) % 10>>, carry |-> (a[lo] * d + c) \div 10]
    ELSE BigMulDigitHigh(a, d, (lo + hi) \div 2, hi,
                         BigMulDigitC(a, d, lo, (lo + hi) \div 2, c))

BigMulDigitHigh(a, d, mid, hi, low) ==
    BigJoin(low, BigMulDigitC(a, d, mid + 1, hi, low.carry))

\* a * 10 ** k
BigShift(a, k) == IF a = <<>> THEN <<>> ELSE [i \in 1..k |-> 0] \o a

\* a times the number whose digits are the digits lo..hi of b
RECURSIVE BigMulFrom(_, _, _, _)
BigMulFrom(a, b, lo, hi) ==
    IF lo = hi
    THEN BigStrip(BigCarried(BigMulDigitC(a, b[lo], 1, Len(a), 0)))
    ELSE BigAdd(BigMulFrom(a, b, lo, (lo + hi) \div 2),
                BigShift(BigMulFrom(a, b, (lo + hi) \div 2 + 1, hi),
                         (lo + hi) \div 2 + 1 - lo))

\* a * b
BigMul(a, b) ==
    IF a = <<>> \/ b = <<>> THEN <<>>
    ELSE IF Len(a) < Len(b) THEN BigMulFrom(b, a, 1, Len(a))
    ELSE BigMulFrom(a, b, 1, Len(b))

\* the digit q + r // b and r % b, for r < (10 - q) * b: b is taken from r
\* as often as it goes
RECURSIVE BigQuotDigit(_, _, _)
BigQuotDigit(r, b, q) ==
    IF BigLess(r, b) THEN [digits |-> <<q>>, rem |-> r]
    ELSE BigQuotDigit(BigSub(r, b), b, q + 1)

\* long division by b > 0 of the digits hi down to lo of a, most significant
\* first, r being the remainder left by the digits above hi
RECURSIVE BigDivFrom(_, _, _, _, _)
BigDivFrom(a, b, lo, hi, r) ==
    IF lo = hi
    THEN BigQuotDigit(BigStrip(<<a[lo]>> \o r), b, 0)
    ELSE CHOOSE result \in UNION
             { { [digits |-> low.digits \o high.digits, rem |-> low.rem] :
                   low \in { BigDivFrom(a, b, lo, (lo + hi) \div 2, high.rem) } } :
                 high \in { BigDivFrom(a, b, (lo + hi) \div 2 + 1, hi, r) } } : TRUE

\* a // b for b > 0
BigFloorDiv(a, b) ==
    IF a = <<>> THEN <<>> ELSE BigStrip(BigDivFrom(a, b, 1, Len(a), <<>>).digits)

BigMax(a, b) == IF BigLess(a, b) THEN b ELSE a

BigSquare(a) == BigMul(a, a)

\* 2 ** n
RECURSIVE BigPow2(_)
BigPow2(n) ==
    IF n = 0 THEN BigOfInt(1)
    ELSE IF n % 2 = 0 THEN BigSquare(BigPow2(n \div 2))
    ELSE BigMul(BigOfInt(2), BigPow2(n - 1))

\* a / 1024 of an int a: the quotient is rounded to the nearest float, and
\* from 2**1024 - 2**970 on it rounds to 2**1024, which no float holds
TrueDivOverflowAt == BigSub(BigPow2(1034), BigPow2(980))

TrueDivOverflows(a) == ~BigLess(a, TrueDivOverflowAt)


(***************************************************************************)
(* calculate_training_data_size                                            *)
(***************************************************************************)
GiB == BigOfInt(1024 * 1024 * 1024)

MinDatasetMemoryRatio == 5
MinStepsPerEpoch == 500

SizingRaiseMsg(e, msg) ==
    [raised |-> e,
     message |-> msg,
     required_file_count |-> <<>>,
     required_subfolders_count |-> 0,
     total_disk_bytes |-> <<>>,
     min_num_files_by_bytes |-> <<>>,
     min_num_files_by_samples |-> <<>>,
     min_samples |-> <<>>,
     dictated_by |-> "none",
     logged |-> 0]

SizingRaise(e) == SizingRaiseMsg(e, "")

\* Lines 881-883 and 887-889: per-host memory in GB times the host count
ManualTotalMemoryMutPerHost(memory_in_gb, num_hosts) ==
    BigFloorDiv(BigMul(BigOfInt(memory_in_gb), GiB), BigOfInt(num_hosts))

ManualTotalMemory(memory_in_gb, num_hosts) ==
    BigMul(BigMul(BigOfInt(memory_in_gb), GiB), BigOfInt(num_hosts))

\* Lines 884 and 890: with a manual override the process count is the one of args
OverrideProcessesMutKeepArgument(args_num_processes, num_processes) ==
    num_processes

OverrideProcesses(args_num_processes, num_processes) ==
    args_num_processes

\* Lines 876-892: the amount of memory in the cluster, from args or from
\* measurements, and the process count the rest of the function uses.
SizingMemory(args, cluster_information, num_processes) ==
    IF Len(args) = 0
    THEN IF Len(cluster_information) = 0
         THEN [raised |-> "AttributeError",
               message |-> "'NoneType' object has no attribute 'total_memory_bytes'",
               total_mem_bytes |-> <<>>, num_processes |-> num_processes]
         ELSE [raised |-> "none", message |-> "",
               total_mem_bytes |-> cluster_information[1].total_memory_bytes,
               num_processes |-> num_processes]
    ELSE LET a == args[1] IN
         IF a.client_host_memory_in_gb # 0 /\ a.num_client_hosts # 0
         THEN [raised |-> "none", message |-> "",
               total_mem_bytes |->
                   ManualTotalMemory(a.client_host_memory_in_gb, a.num_client_hosts),
               num_processes |-> OverrideProcesses(a.num_processes, num_processes)]
         ELSE IF "clienthost_host_memory_in_gb" \notin DOMAIN a
         THEN [raised |-> "AttributeError",
               message |-> "'Namespace' object has no attribute 'clienthost_host_memory_in_gb'",
               total_mem_bytes |-> <<>>, num_processes |-> num_processes]
         ELSE IF a.clienthost_host_memory_in_gb # 0 /\ a.num_client_hosts = 0
         THEN [raised |-> "none", message |-> "",
               total_mem_bytes |->
                   ManualTotalMemory(a.clienthost_host_memory_in_gb, Len(a.hosts)),
               num_processes |-> OverrideProcesses(a.num_processes, num_processes)]
         ELSE [raised |-> "ValueError",
               message |-> "Either args or cluster_information is required",
               total_mem_bytes |-> <<>>, num_processes |-> num_processes]

\* Line 903
RequiredFileCountMutMin(min_num_files_by_bytes, min_num_files_by_samples) ==
    IF BigLess(min_num_files_by_bytes, min_num_files_by_samples)
    THEN min_num_files_by_bytes ELSE min_num_files_by_samples

RequiredFileCount(min_num_files_by_bytes, min_num_files_by_samples) ==
    BigMax(min_num_files_by_bytes, min_num_files_by_samples)

\* str() of an int of more than this many digits raises ValueError
MaxStrDigits == 4300

IntStrRaises(b) == Len(b) > MaxStrDigits

IntStrMessage ==
    "Exceeds the limit (4300 digits) for integer string conversion; use sys.set_int_max_str_digits() to increase the limit"

\* Lines 903-918: the lines logged and the return value. Lines 906-909 format
\* four numbers one after the other, line 910 divides by 1024; the numbers
\* logged before a line raises stay logged, and logged counts the lines: six
\* of the numbers and one of the constraint that dictates. The number of
\* line 911 is at most the dataset size, so that line 910 raises before
\* line 911 can
SizingReport(file_size_bytes, min_num_files_by_bytes, min_samples, min_num_files_by_samples) ==
    LET required_file_count ==
            RequiredFileCount(min_num_files_by_bytes, min_num_files_by_samples)
        total_disk_bytes == BigMul(required_file_count, file_size_bytes)
    IN  IF IntStrRaises(required_file_count)
        THEN SizingRaiseMsg("ValueError", IntStrMessage)
        ELSE IF IntStrRaises(min_samples)
        THEN [SizingRaiseMsg("ValueError", IntStrMessage)
                EXCEPT !.required_file_count = required_file_count,
                       !.logged = 1]
        ELSE IF IntStrRaises(min_num_files_by_samples)
        THEN [SizingRaiseMsg("ValueError", IntStrMessage)
                EXCEPT !.required_file_count = required_file_count,
                       !.min_samples = min_samples,
                       !.logged = 2]
        ELSE IF IntStrRaises(min_num_files_by_bytes)
        THEN [SizingRaiseMsg("ValueError", IntStrMessage)
                EXCEPT !.required_file_count = required_file_count,
                       !.min_samples = min_samples,
                       !.min_num_files_by_samples = min_num_files_by_samples,
                       !.logged = 3]
        ELSE IF TrueDivOverflows(total_disk_bytes)
        THEN [SizingRaiseMsg("OverflowError",
                             "integer division result too large for a float")
                EXCEPT !.required_file_count = required_file_count,
                       !.min_samples = min_samples,
                       !.min_num_files_by_samples = min_num_files_by_samples,
                       !.min_num_files_by_bytes = min_num_files_by_bytes,
                       !.logged = 4]
        ELSE
        [raised |-> "none",
         message |-> "",
         required_file_count |-> required_file_count,
         required_subfolders_count |-> 0,
         total_disk_bytes |-> total_disk_bytes,
         min_num_files_by_bytes |-> min_num_files_by_bytes,
         min_num_files_by_samples |-> min_num_files_by_samples,
         min_samples |-> min_samples,
         dictated_by |->
             IF BigLess(min_num_files_by_samples, min_num_files_by_bytes)
             THEN "dataset size to memory size ratio"
             ELSE "500 step requirement",
         logged |-> 7]

\* Lines 894-918, once the memory and the process count are known
SizingCompute(total_mem_bytes, dataset_params, reader_params, num_processes) ==
    IF "num_samples_per_file" \notin DOMAIN dataset_params
    THEN SizingRaiseMsg("KeyError", "'num_samples_per_file'")
    ELSE IF "record_length_bytes" \notin DOMAIN dataset_params
    THEN SizingRaiseMsg("KeyError", "'record_length_bytes'")
    ELSE
    LET dataset_size_bytes == BigMul(BigOfInt(MinDatasetMemoryRatio), total_mem_bytes)
        samples_per_file == BigOfInt(dataset_params.num_samples_per_file)
        file_size_bytes ==
            BigMul(samples_per_file, BigOfInt(dataset_params.record_length_bytes))
    IN
    IF file_size_bytes = <<>>
    THEN SizingRaiseMsg("ZeroDivisionError", "integer division or modulo by zero")
    ELSE IF Len(num_processes) = 0
    THEN SizingRaiseMsg("TypeError", "unsupported operand type(s) for *: 'int' and 'NoneType'")
    ELSE IF "batch_size" \notin DOMAIN reader_params
    THEN SizingRaiseMsg("KeyError", "'batch_size'")
    ELSE
    LET min_samples ==
            BigMul(BigMul(BigOfInt(MinStepsPerEpoch), BigOfInt(num_processes[1])),
                   BigOfInt(reader_params.batch_size))
    IN  SizingReport(file_size_bytes,
                     BigFloorDiv(dataset_size_bytes, file_size_bytes),
                     min_samples,
                     BigFloorDiv(min_samples, samples_per_file))

calculate_training_data_size(args, cluster_information, dataset_params, reader_params, num_processes) ==
    LET m == SizingMemory(args, cluster_information, num_processes) IN
    IF m.raised # "none" THEN SizingRaiseMsg(m.raised, m.message)
    ELSE SizingCompute(m.total_mem_bytes, dataset_params, reader_params,
                       m.num_processes)


(***************************************************************************)
(* Callers of calculate_training_data_size: the inputs of SpecSizing       *)
(***************************************************************************)
MaxMemSteps == 3
MaxSamplesPerFile == 2
MaxRecordLength == 2
MaxBatchSize == 2
MaxProcesses == 2
MaxHostMemGB == 1
MaxClientHosts == 2

\* measured memory, in bytes; 97 keeps the quotients off the multiples
MemValues == {BigOfInt(97 * k) : k \in 0..MaxMemSteps}

\* 3 * 10**310 and 4 * 10**310 bytes: five times the first is the largest
\* dataset of this form whose size in KB is a float, the second is beyond it
HugeMemValues ==
    { [i \in 1..311 |-> IF i = 311 THEN k ELSE 0] : k \in 3..4 }

MeasuredCluster(mem) == Some([total_memory_bytes |-> mem, total_cores |-> 1])

OptProcesses == {None} \cup {Some(p) : p \in 0..MaxProcesses}

ClusterCalls ==
    { [args |-> None,
       cluster_information |-> MeasuredCluster(m),
       dataset_params |-> [num_samples_per_file |-> s, record_length_bytes |-> r],
       reader_params |-> [batch_size |-> b],
       num_processes |-> p] :
         m \in MemValues, s \in 0..MaxSamplesPerFile, r \in 1..MaxRecordLength,
         b \in 0..MaxBatchSize, p \in OptProcesses }

\* calls on a cluster whose dataset size is at the end of the float range
HugeCalls ==
    { [args |-> None,
       cluster_information |-> MeasuredCluster(m),
       dataset_params |-> [num_samples_per_file |-> 1, record_length_bytes |-> r],
       reader_params |-> [batch_size |-> 1],
       num_processes |-> Some(1)] :
         m \in HugeMemValues, r \in 1..MaxRecordLength }

\* 2 * 10**4299 bytes: five times it is the first number of 4301 digits
DigitLimitMemValues ==
    { [i \in 1..(MaxStrDigits) |-> IF i = MaxStrDigits THEN 2 ELSE 0] }

\* calls on a cluster whose dataset size in bytes has one digit more than
\* str() converts: with one byte a file the file count has 4301 digits, with
\* two bytes a file it has 4300
DigitLimitCalls ==
    { [args |-> None,
       cluster_information |-> MeasuredCluster(m),
       dataset_params |-> [num_samples_per_file |-> 1, record_length_bytes |-> r],
       reader_params |-> [batch_size |-> 1],
       num_processes |-> Some(1)] :
         m \in DigitLimitMemValues, r \in 1..MaxRecordLength }

\* calls that cannot reach the arithmetic
BrokenCalls ==
    { [args |-> None, cluster_information |-> None,
       dataset_params |-> [num_samples_per_file |-> 1, record_length_bytes |-> 1],
       reader_params |-> [batch_size |-> 1], num_processes |-> Some(1)],
      [args |-> None, cluster_information |-> MeasuredCluster(BigOfInt(97)),
       dataset_params |-> [num_samples_per_file |-> 1],
       reader_params |-> [batch_size |-> 1], num_processes |-> Some(1)],
      [args |-> None, cluster_information |-> MeasuredCluster(BigOfInt(97)),
       dataset_params |-> [num_samples_per_file |-> 1, record_length_bytes |-> 1],
       reader_params |-> [odirect |-> 1], num_processes |-> Some(1)] }

ArgsValues ==
    { [client_host_memory_in_gb |-> g, num_client_hosts |-> n,
       num_processes |-> Some(p), hosts |-> h] :
         g \in 0..MaxHostMemGB, n \in 0..MaxClientHosts, p \in 1..MaxProcesses,
         h \in {<<"host1">>, <<"host1", "host2">>} }
    \cup
    { [client_host_memory_in_gb |-> 0, num_client_hosts |-> n,
       num_processes |-> Some(p), hosts |-> h,
       clienthost_host_memory_in_gb |-> g] :
         g \in 0..MaxHostMemGB, n \in 0..MaxClientHosts, p \in 1..MaxProcesses,
         h \in {<<"host1">>, <<"host1", "host2">>} }

OverrideCalls ==
    { [args |-> Some(a),
       cluster_information |-> MeasuredCluster(BigOfInt(97)),
       dataset_params |-> [num_samples_per_file |-> s, record_length_bytes |-> 1],
       reader_params |-> [batch_size |-> b],
       num_processes |-> p] :
         a \in ArgsValues, s \in {1, MaxSamplesPerFile}, b \in {1, MaxBatchSize},
         p \in OptProcesses }

\* spec.md section 8: 1 TiB of memory, 1000 samples of 100000 bytes per file,
\* batch size 32, 8 processes
TiB == BigMul(BigOfInt(1024 * 1024), BigOfInt(1024 * 1024))

ScenarioCall ==
    [args |-> None,
     cluster_information |-> MeasuredCluster(TiB),
     dataset_params |-> [num_samples_per_file |-> 1000, record_length_bytes |-> 100000],
     reader_params |-> [batch_size |-> 32],
     num_processes |-> Some(8)]

SizingCalls ==
    ClusterCalls \cup HugeCalls \cup DigitLimitCalls \cup BrokenCalls \cup OverrideCalls \cup {ScenarioCall}

Apply(call) ==
    calculate_training_data_size(call.args, call.cluster_information,
                                 call.dataset_params, call.reader_params,
                                 call.num_processes)

SizingInit ==
    /\ szcall \in SizingCalls
    /\ szret = SizingRaise("notcalled")
    /\ szprev = [call |-> szcall, ret |-> SizingRaise("notcalled")]
    /\ VerifierInit

\* the first call
SizingCall ==
    /\ szret.raised = "notcalled"
    /\ szret' = Apply(szcall)
    /\ UNCHANGED <<szcall, szprev>>
    /\ UNCHANGED <<vfvars, exvars>>

CallAgain(call) ==
    /\ szret.raised = "none"
    /\ szprev' = [call |-> szcall, ret |-> szret]
    /\ szcall' = call
    /\ szret' = Apply(call)
    /\ UNCHANGED <<vfvars, exvars>>

\* the same call on a cluster with more memory
IncreaseMemory ==
    /\ szret.raised = "none"
    /\ \/ /\ Len(szcall.args) = 0
          /\ \E m \in MemValues \cup HugeMemValues :
               /\ BigLess(szcall.cluster_information[1].total_memory_bytes, m)
               /\ CallAgain([szcall EXCEPT !.cluster_information = MeasuredCluster(m)])
       \/ /\ Len(szcall.args) = 1
          /\ szcall.args[1].num_client_hosts < MaxClientHosts
          /\ CallAgain([szcall EXCEPT !.args[1].num_client_hosts = @ + 1])

\* the same call with more processes
IncreaseProcesses ==
    /\ szret.raised = "none"
    /\ \/ /\ Len(szcall.args) = 0
          /\ \E p \in 0..MaxProcesses :
               /\ szcall.num_processes[1] < p
               /\ CallAgain([szcall EXCEPT !.num_processes = Some(p)])
       \/ /\ Len(szcall.args) = 1
          /\ \E p \in 0..MaxProcesses :
               /\ szcall.args[1].num_processes[1] < p
               /\ CallAgain([szcall EXCEPT !.args[1].num_processes = Some(p)])

\* the same call with a larger batch size
IncreaseBatch ==
    \E b \in 0..MaxBatchSize :
        /\ szret.raised = "none"
        /\ szcall.reader_params.batch_size < b
        /\ CallAgain([szcall EXCEPT !.reader_params.batch_size = b])

SizingNext == SizingCall \/ IncreaseMemory \/ IncreaseProcesses \/ IncreaseBatch

SpecSizing == SizingInit /\ [][SizingNext]_vars


(***************************************************************************)
(* Values imported from mlpstorage.config                                  *)
(***************************************************************************)
\* PARAM_VALIDATION
CLOSED == "CLOSED"
OPEN == "OPEN"
INVALID == "INVALID"

\* BENCHMARK_TYPES
training == "training"
checkpointing == "checkpointing"
vector_database == "vector_database"

(***************************************************************************)
(* Strings that the code takes apart are sequences of tokens: the string   *)
(* is the concatenation of its tokens. A token is a piece the code never   *)
(* takes apart; the separators it splits at or replaces are tokens of      *)
(* their own.                                                              *)
(***************************************************************************)
RECURSIVE Text(_)
Text(s) == IF s = <<>> THEN "" ELSE s[1] \o Text(Tail(s))

\* the model that supports direct I/O and needs the checkpoint stage
UNET == <<"unet3d">>

\* str.split(sep): the pieces between the occurrences of the token sep
RECURSIVE SplitFrom(_, _, _)
SplitFrom(s, sep, piece) ==
    IF s = <<>> THEN <<piece>>
    ELSE IF s[1] = sep THEN <<piece>> \o SplitFrom(Tail(s), sep, <<>>)
    ELSE SplitFrom(Tail(s), sep, Append(piece, s[1]))

Split(s, sep) == SplitFrom(s, sep, <<>>)

\* str.startswith(prefix)
StartsWith(s, prefix) ==
    /\ Len(s) >= Len(prefix)
    /\ SubSeq(s, 1, Len(prefix)) = prefix

\* str.replace("llama_", "llama3_")
RECURSIVE ReplaceLlama(_)
ReplaceLlama(s) ==
    IF s = <<>> THEN <<>>
    ELSE IF Len(s) >= 2 /\ s[1] = "llama" /\ s[2] = "_"
    THEN <<"llama3", "_">> \o ReplaceLlama(SubSeq(s, 3, Len(s)))
    ELSE <<s[1]>> \o ReplaceLlama(Tail(s))

\* str.replace("_", "-")
ReplaceUnderscores(s) == [i \in 1..Len(s) |-> IF s[i] = "_" THEN "-" ELSE s[i]]

WorkloadPrefix == <<"++workload", ".">>

(***************************************************************************)
(* Issue                                                                   *)
(***************************************************************************)
\* Lines 24-31: parameter, expected and actual are Optional texts
Issue(validation, message, parameter, expected, actual) ==
    [validation |-> validation, message |-> message, parameter |-> parameter,
     expected |-> expected, actual |-> actual, severity |-> "error"]

RECURSIVE BigText(_)
BigText(b) ==
    IF b = <<>> THEN ""
    ELSE BigText(Tail(b)) \o ToString(b[1])

\* str() of an int
IntText(b) == IF b = <<>> THEN "0" ELSE BigText(b)

(***************************************************************************)
(* ClusterInformation                                                      *)
(***************************************************************************)
RECURSIVE SumMemory(_)
SumMemory(host_info_list) ==
    IF host_info_list = <<>> THEN <<>>
    ELSE BigAdd(host_info_list[1].memory.total, SumMemory(Tail(host_info_list)))

RECURSIVE SumCores(_)
SumCores(host_info_list) ==
    IF host_info_list = <<>> THEN 0
    ELSE (IF Len(host_info_list[1].cpu) = 1 THEN host_info_list[1].cpu[1].num_cores ELSE 0)
         + SumCores(Tail(host_info_list))

\* Lines 204-226: __init__ followed by calculate_aggregated_info
ClusterInformation(host_info_list) ==
    [host_info_list |-> host_info_list,
     total_memory_bytes |-> SumMemory(host_info_list),
     total_cores |-> SumCores(host_info_list)]

RECURSIVE SumInts(_)
SumInts(xs) == IF xs = <<>> THEN 0 ELSE xs[1] + SumInts(Tail(xs))

\* Lines 228-237: None, or the cluster of the summary arrays; a summary
\* without the arrays makes sum() raise
from_dlio_summary_json(summary) ==
    IF "host_memory_GB" \notin DOMAIN summary \/ "host_cpu_count" \notin DOMAIN summary
    THEN [raised |-> "TypeError", cluster |-> None]
    ELSE [raised |-> "none",
          cluster |-> Some([host_info_list |-> <<>>,
                            total_memory_bytes |->
                                BigMul(BigOfInt(SumInts(summary.host_memory_GB)), GiB),
                            total_cores |-> SumInts(summary.host_cpu_count)])]

(***************************************************************************)
(* BenchmarkRun                                                            *)
(***************************************************************************)
Get(dict, key, default) == IF key \in DOMAIN dict THEN dict[key] ELSE default

EmptyDict == [k \in {} |-> 0]

\* Lines 311-324: the fields as __init__ sets them first
BlankRun ==
    [benchmark_type |-> None, model |-> None, accelerator |-> None,
     command |-> None, num_processes |-> None, parameters |-> EmptyDict,
     override_parameters |-> <<>>, system_info |-> None, metrics |-> Some(EmptyDict),
     category |-> "NONE", issues |-> <<>>, run_datetime |-> None,
     post_execution |-> FALSE, result_root_dir |-> None]

\* Lines 383-402
process_benchmark_instance(benchmark_instance) ==
    [raised |-> "none",
     run |-> [BlankRun EXCEPT
        !.benchmark_type = Some(benchmark_instance.BENCHMARK_TYPE),
        !.model =
            IF "model" \in DOMAIN benchmark_instance.args
            THEN Some(benchmark_instance.args.model) ELSE None,
        !.command =
            IF "command" \in DOMAIN benchmark_instance.args
            THEN Some(benchmark_instance.args.command) ELSE None,
        !.run_datetime = Some(benchmark_instance.run_datetime),
        !.num_processes = benchmark_instance.args.num_processes,
        !.parameters =
            IF "combined_params" \in DOMAIN benchmark_instance
            THEN benchmark_instance.combined_params
            ELSE benchmark_instance.args,
        !.override_parameters = benchmark_instance.params_dict,
        !.system_info = Get(benchmark_instance, "cluster_information", None)]]


\* dict[key] = value on a dict kept as the sequence of its (key, value) items
RECURSIVE DictSet(_, _, _)
DictSet(d, k, v) ==
    IF d = <<>> THEN << <<k, v>> >>
    ELSE IF d[1][1] = k THEN << <<k, v>> >> \o Tail(d)
    ELSE <<d[1]>> \o DictSet(Tail(d), k, v)

\* Lines 448-451: the overrides under "++workload.", the prefix stripped
RECURSIVE ParseOverrides(_, _)
ParseOverrides(overrides, acc) ==
    IF overrides = <<>> THEN [raised |-> "none", override_parameters |-> acc]
    ELSE LET parts == Split(overrides[1], "=") IN
         IF Len(parts) # 2
         THEN [raised |-> "ValueError", override_parameters |-> acc]
         ELSE ParseOverrides(Tail(overrides),
                  IF StartsWith(parts[1], WorkloadPrefix)
                  THEN DictSet(acc,
                               SubSeq(parts[1], Len(WorkloadPrefix) + 1, Len(parts[1])),
                               parts[2])
                  ELSE acc)

\* Lines 418-423: the benchmark type of the executed workflow stages
InferBenchmarkTypeMutCheckpointFirst(generate_data, train, checkpoint) ==
    IF checkpoint THEN Some(checkpointing)
    ELSE IF generate_data \/ train THEN Some(training)
    ELSE None

InferBenchmarkType(generate_data, train, checkpoint) ==
    IF generate_data \/ train THEN Some(training)
    ELSE IF checkpoint THEN Some(checkpointing)
    ELSE None

\* Lines 434-443: the command of a training run
InferCommand(benchmark_type, generate_data, train) ==
    IF benchmark_type # Some(training) THEN None
    ELSE IF generate_data THEN Some("datagen")
    ELSE IF train THEN Some("run_benchmark")
    ELSE None

RaisedRun(e) == [raised |-> e, run |-> BlankRun]

\* Lines 404-454
process_benchmark_result(benchmark_result) ==
    IF Len(benchmark_result.summary) = 0 THEN RaisedRun("AttributeError")
    ELSE
    LET summary == benchmark_result.summary[1]
        hydra_workload_config ==
            Get(Get(benchmark_result.hydra_configs, "config.yaml", EmptyDict),
                "workload", EmptyDict)
        hydra_workload_overrides ==
            Get(benchmark_result.hydra_configs, "overrides.yaml", <<>>)
        hydra_workflow == Get(hydra_workload_config, "workflow", EmptyDict)
        generate_data == Get(hydra_workflow, "generate_data", FALSE)
        train == Get(hydra_workflow, "train", FALSE)
        checkpoint == Get(hydra_workflow, "checkpoint", FALSE)
        workloads ==
            SelectSeq(hydra_workload_overrides,
                      LAMBDA i : StartsWith(i, <<"workload", "=">>))
        benchmark_type == InferBenchmarkType(generate_data, train, checkpoint)
        name == Get(Get(hydra_workload_config, "model", EmptyDict), "name", None)
    IN
    IF Len(name) = 0 THEN RaisedRun("AttributeError")
    ELSE IF "num_accelerators" \notin DOMAIN summary THEN RaisedRun("KeyError")
    ELSE IF benchmark_type = Some(training) /\ train
            /\ (workloads = <<>> \/ Len(Split(workloads[1], "_")) < 2)
    THEN RaisedRun("IndexError")
    ELSE
    LET parsed == ParseOverrides(hydra_workload_overrides, <<>>)
        cluster == from_dlio_summary_json(summary)
    IN
    IF parsed.raised # "none" THEN RaisedRun(parsed.raised)
    ELSE IF cluster.raised # "none" THEN RaisedRun(cluster.raised)
    ELSE
    [raised |-> "none",
     run |-> [BlankRun EXCEPT
        !.benchmark_type = benchmark_type,
        !.model = Some(ReplaceUnderscores(ReplaceLlama(name[1]))),
        !.num_processes = Some(summary.num_accelerators),
        !.command = InferCommand(benchmark_type, generate_data, train),
        !.accelerator =
            IF benchmark_type = Some(training) /\ train
            THEN Some(Split(workloads[1], "_")[2]) ELSE None,
        !.run_datetime =
            IF "start" \in DOMAIN summary THEN Some(summary.start) ELSE None,
        !.parameters = hydra_workload_config,
        !.override_parameters = parsed.override_parameters,
        !.metrics =
            IF "metric" \in DOMAIN summary THEN Some(summary.metric) ELSE None,
        !.system_info = cluster.cluster]]

\* Lines 304-309: the argument error of a run with both sources or with none
SourceErrorMutOnlyNeither(benchmark_result, benchmark_instance) ==
    Len(benchmark_result) = 0 /\ Len(benchmark_instance) = 0

SourceError(benchmark_result, benchmark_instance) ==
    \/ Len(benchmark_result) = 0 /\ Len(benchmark_instance) = 0
    \/ Len(benchmark_result) = 1 /\ Len(benchmark_instance) = 1

\* Lines 302-341: BenchmarkRun(benchmark_result, benchmark_instance), each
\* of the two None or an object
BenchmarkRun(benchmark_result, benchmark_instance) ==
    IF SourceError(benchmark_result, benchmark_instance) THEN RaisedRun("ValueError")
    ELSE
    LET made ==
            IF Len(benchmark_instance) = 1
            THEN LET p == process_benchmark_instance(benchmark_instance[1]) IN
                 [p EXCEPT !.run.post_execution = FALSE]
            ELSE LET p == process_benchmark_result(benchmark_result[1]) IN
                 [p EXCEPT !.run.post_execution = TRUE]
    IN
    IF made.raised # "none" THEN RaisedRun(made.raised)
    ELSE IF Len(made.run.benchmark_type) = 0 THEN RaisedRun("AttributeError")
    ELSE made


(***************************************************************************)
(* The checks.  A check gives [raised, message, issues]: the class and the *)
(* text of the exception it raised ("none" if it returned) and the list of *)
(* the issues it returned (empty for None).                                *)
(***************************************************************************)
Returns(issues) == [raised |-> "none", message |-> "", issues |-> issues]
Raises(e, msg) == [raised |-> e, message |-> msg, issues |-> <<>>]

\* str() of a member of BENCHMARK_TYPES, or of None
MemberText(benchmark_type) ==
    IF benchmark_type = None THEN "None" ELSE "BENCHMARK_TYPES." \o benchmark_type[1]

\* Lines 543-552
Training_check_benchmark_type(run) ==
    IF run.benchmark_type # Some(training)
    THEN Returns(<<Issue(INVALID,
                         "Invalid benchmark type: " \o MemberText(run.benchmark_type),
                         Some("benchmark_type"), Some(training),
                         IF run.benchmark_type = None THEN None
                         ELSE Some(Text(run.benchmark_type)))>>)
    ELSE Returns(<<>>)

\* Lines 554-587
check_num_files_trainMutAtLeast(run) ==
    IF "dataset" \notin DOMAIN run.parameters
    THEN Returns(<<Issue(INVALID, "Missing dataset parameters", Some("dataset"),
                         None, None)>>)
    ELSE IF "num_files_train" \notin DOMAIN run.parameters.dataset
    THEN Returns(<<Issue(INVALID, "Missing num_files_train parameter",
                         Some("dataset.num_files_train"), None, None)>>)
    ELSE IF "reader" \notin DOMAIN run.parameters
    THEN Raises("KeyError", "'reader'")
    ELSE
    LET configured_num_files == run.parameters.dataset.num_files_train
        sized == calculate_training_data_size(None, run.system_info,
                     run.parameters.dataset, run.parameters.reader, run.num_processes)
    IN
    IF sized.raised # "none" THEN Raises(sized.raised, sized.message)
    ELSE IF ~BigLess(sized.required_file_count, BigOfInt(configured_num_files))
    THEN Returns(<<Issue(INVALID, "Insufficient number of training files",
                         Some("dataset.num_files_train"),
                         Some(">= " \o IntText(sized.required_file_count)),
                         Some(ToString(configured_num_files)))>>)
    ELSE Returns(<<>>)

check_num_files_train(run) ==
    IF "dataset" \notin DOMAIN run.parameters
    THEN Returns(<<Issue(INVALID, "Missing dataset parameters", Some("dataset"),
                         None, None)>>)
    ELSE IF "num_files_train" \notin DOMAIN run.parameters.dataset
    THEN Returns(<<Issue(INVALID, "Missing num_files_train parameter",
                         Some("dataset.num_files_train"), None, None)>>)
    ELSE IF "reader" \notin DOMAIN run.parameters
    THEN Raises("KeyError", "'reader'")
    ELSE
    LET configured_num_files == run.parameters.dataset.num_files_train
        sized == calculate_training_data_size(None, run.system_info,
                     run.parameters.dataset, run.parameters.reader, run.num_processes)
    IN
    IF sized.raised # "none" THEN Raises(sized.raised, sized.message)
    ELSE IF BigLess(BigOfInt(configured_num_files), sized.required_file_count)
    THEN Returns(<<Issue(INVALID, "Insufficient number of training files",
                         Some("dataset.num_files_train"),
                         Some(">= " \o IntText(sized.required_file_count)),
                         Some(ToString(configured_num_files)))>>)
    ELSE Returns(<<>>)

Key(section, name) == <<section, ".", name>>

\* Lines 598-602
closed_allowed_params ==
    { Key("dataset", "num_files_train"), Key("dataset", "num_subfolders_train"),
      Key("dataset", "data_folder"), Key("reader", "read_threads"),
      Key("reader", "computation_threads"), Key("reader", "transfer_size"),
      Key("reader", "odirect"), Key("reader", "prefetch_size"),
      Key("checkpoint", "checkpoint_folder"), Key("storage", "storage_type"),
      Key("storage", "storage_root") }

open_allowed_params ==
    { <<"framework">>, Key("dataset", "format"),
      Key("dataset", "num_samples_per_file"), Key("reader", "data_loader") }

\* Lines 604-630: the issues of the override items, in the order of the dict
RECURSIVE AllowedParamsIssues(_)
AllowedParamsIssues(items) ==
    IF items = <<>> THEN <<>>
    ELSE
    LET param == items[1][1]
        value == items[1][2]
        shown == Text(param) \o " = " \o Text(value)
        rest == AllowedParamsIssues(Tail(items))
    IN
    IF StartsWith(param, <<"workflow">>) THEN rest
    ELSE IF param \in closed_allowed_params
    THEN <<Issue(CLOSED, "Closed parameter override allowed: " \o shown,
                 Some("Overrode Parameters"), None, Some(Text(value)))>> \o rest
    ELSE IF param \in open_allowed_params
    THEN <<Issue(OPEN, "Open parameter override allowed: " \o shown,
                 Some("Overrode Parameters"), None, Some(Text(value)))>> \o rest
    ELSE <<Issue(INVALID, "Disallowed parameter override: " \o shown,
                 Some("Overrode Parameters"), Some("None"), Some(Text(value)))>> \o rest

\* Lines 589-631
check_allowed_params(run) == Returns(AllowedParamsIssues(run.override_parameters))

\* Lines 633-657
check_workflow_parametersMutAnyModel(run) ==
    LET workflow_params == Get(run.parameters, "workflow", EmptyDict) IN
    IF "checkpoint" \in DOMAIN workflow_params
    THEN IF workflow_params.checkpoint
         THEN Returns(<<Issue(CLOSED, "Unet3D training requires executing a checkpoing",
                              Some("workflow.checkpoint"), Some("True"), Some("True"))>>)
         ELSE Returns(<<Issue(INVALID,
                              "Unet3D training requires executing a checkpoint. The parameter 'workflow.checkpoint' is set to False",
                              Some("workflow.checkpoint"), Some("True"), Some("False"))>>)
    ELSE Returns(<<>>)

check_workflow_parameters(run) ==
    LET workflow_params == Get(run.parameters, "workflow", EmptyDict) IN
    IF /\ run.model = Some(UNET)
       /\ run.command = Some("run_benchmark")
       /\ "checkpoint" \in DOMAIN workflow_params
    THEN IF workflow_params.checkpoint
         THEN Returns(<<Issue(CLOSED, "Unet3D training requires executing a checkpoing",
                              Some("workflow.checkpoint"), Some("True"), Some("True"))>>)
         ELSE Returns(<<Issue(INVALID,
                              "Unet3D training requires executing a checkpoint. The parameter 'workflow.checkpoint' is set to False",
                              Some("workflow.checkpoint"), Some("True"), Some("False"))>>)
    ELSE Returns(<<>>)

\* Lines 659-670
check_odirect_supported_model(run) ==
    LET odirect == Get(Get(run.parameters, "reader", EmptyDict), "odirect", 0) IN
    IF run.model # Some(UNET) /\ odirect # 0
    THEN Returns(<<Issue(INVALID,
                         "The reader.odirect option is only supported for Unet3d model",
                         Some("reader.odirect"), Some("False"),
                         Some(ToString(odirect)))>>)
    ELSE Returns(<<>>)

\* Lines 672-682 and 687-688: checks whose body is pass
check_pass(run) == Returns(<<>>)

\* the orders in which a Python set of members of PARAM_VALIDATION may be
\* iterated: the order follows the hashes of the members, which differ from
\* one process to the next
IterationOrders ==
    { order \in [1..3 -> {INVALID, OPEN, CLOSED}] :
        \A i \in 1..3 : \A j \in 1..3 : i # j => order[i] # order[j] }

\* the iteration orders of the set of the categories of these runs: the set
\* of one run has one element, and one order
IterationOrdersOf(benchmark_runs) ==
    IF Len(benchmark_runs) <= 1 THEN {<<INVALID, OPEN, CLOSED>>} ELSE IterationOrders

\* Lines 518, 526, 534: [cat.value.upper() for cat in category_set], the
\* set being iterated in this order
CategoryNames(category_set, order) ==
    LET name(i) == IF order[i] \in category_set THEN order[i] \o " " ELSE ""
    IN  name(1) \o name(2) \o name(3)

\* Lines 511-537; benchmark_runs is the list of the run objects, order the
\* iteration order of the set of their categories
check_runs_valid(benchmark_runs, order) ==
    LET category_set == {benchmark_runs[i].category : i \in 1..Len(benchmark_runs)}
        actual == Some(CategoryNames(category_set, order))
        unset == "NONE" \in category_set
        no_value == "'NoneType' object has no attribute 'value'"
    IN
    IF INVALID \in category_set
    THEN IF unset THEN Raises("AttributeError", no_value)
         ELSE Returns(<<Issue(INVALID, "Invalid runs found.", Some("category"),
                              Some("OPEN or CLOSED"), actual)>>)
    ELSE IF OPEN \in category_set
    THEN IF unset THEN Raises("AttributeError", no_value)
         ELSE Returns(<<Issue(OPEN, "All runs satisfy the OPEN or CLOSED category",
                              Some("category"), Some("OPEN or CLOSED"), actual)>>)
    ELSE IF category_set = {CLOSED}
    THEN Returns(<<Issue(CLOSED, "All runs satisfy the CLOSED category",
                         Some("category"), Some("OPEN or CLOSED"), actual)>>)
    ELSE Returns(<<>>)

RequiredCheckpointOperations == 10

SumCheckpointParamMutFirstRun(benchmark_runs, name) ==
    IF benchmark_runs = <<>> THEN 0
    ELSE Get(Get(benchmark_runs[1].parameters, "checkpoint", EmptyDict), name, 0)

RECURSIVE SumCheckpointParam(_, _)
SumCheckpointParam(benchmark_runs, name) ==
    IF benchmark_runs = <<>> THEN 0
    ELSE (IF benchmark_runs[1].benchmark_type = Some(checkpointing)
          THEN Get(Get(benchmark_runs[1].parameters, "checkpoint", EmptyDict), name, 0)
          ELSE 0)
         + SumCheckpointParam(Tail(benchmark_runs), name)

\* Lines 698-754
Checkpoint_check_num_runs(benchmark_runs) ==
    LET num_writes == SumCheckpointParam(benchmark_runs, "num_checkpoints_write")
        num_reads == SumCheckpointParam(benchmark_runs, "num_checkpoints_read")
        reads ==
            IF num_reads # RequiredCheckpointOperations
            THEN Issue(INVALID,
                       "Expected 10 total read operations, but found " \o ToString(num_reads),
                       Some("checkpoint.num_checkpoints_read"), Some("10"),
                       Some(ToString(num_reads)))
            ELSE Issue(CLOSED, "Found expected 10 total read operations",
                       Some("checkpoint.num_checkpoints_read"), Some("10"),
                       Some(ToString(num_reads)))
        writes ==
            IF num_writes # RequiredCheckpointOperations
            THEN Issue(INVALID,
                       "Expected 10 total write operations, but found " \o ToString(num_writes),
                       Some("checkpoint.num_checkpoints_write"), Some("10"),
                       Some(ToString(num_writes)))
            ELSE Issue(CLOSED, "Found expected 10 total write operations",
                       Some("checkpoint.num_checkpoints_write"), Some("10"),
                       Some(ToString(num_writes)))
        both ==
            IF num_writes = RequiredCheckpointOperations
               /\ num_reads = RequiredCheckpointOperations
            THEN <<Issue(CLOSED, "Found expected 10 total read and write operations",
                         Some("checkpoint.num_checkpoints_read"), Some("10"), Some("10"))>>
            ELSE <<>>
    IN  Returns(<<reads, writes>> \o both)

\* Lines 760-763: a docstring and nothing else
Training_check_num_runs(benchmark_runs) == Returns(<<>>)

\* Lines 465-467: the check_ methods of a checker class, in the order of dir()
check_methods(rules_checker) ==
    CASE rules_checker = "TrainingRunRulesChecker" ->
            <<"check_allowed_params", "check_benchmark_type",
              "check_checkpoint_files_in_code", "check_file_system_caching",
              "check_inter_test_times", "check_num_epochs", "check_num_files_train",
              "check_odirect_supported_model", "check_workflow_parameters">>
      [] rules_checker = "CheckpointingRunRulesChecker" -> <<"check_benchmark_type">>
      [] rules_checker = "CheckpointSubmissionRulesChecker" ->
            <<"check_num_runs", "check_runs_valid">>
      [] rules_checker = "TrainingSubmissionRulesChecker" ->
            <<"check_num_runs", "check_runs_valid">>

\* check_method(): the method of that name of the checker, on its run(s);
\* order is the iteration order of sets of categories in this process
CallCheck(rules_checker, method, benchmark_runs, order) ==
    CASE rules_checker = "TrainingRunRulesChecker" ->
            (CASE method = "check_allowed_params" -> check_allowed_params(benchmark_runs[1])
               [] method = "check_benchmark_type" ->
                      Training_check_benchmark_type(benchmark_runs[1])
               [] method = "check_num_files_train" -> check_num_files_train(benchmark_runs[1])
               [] method = "check_odirect_supported_model" ->
                      check_odirect_supported_model(benchmark_runs[1])
               [] method = "check_workflow_parameters" ->
                      check_workflow_parameters(benchmark_runs[1])
               [] OTHER -> check_pass(benchmark_runs[1]))
      [] rules_checker = "CheckpointingRunRulesChecker" -> check_pass(benchmark_runs[1])
      [] rules_checker = "CheckpointSubmissionRulesChecker" ->
            (CASE method = "check_num_runs" -> Checkpoint_check_num_runs(benchmark_runs)
               [] OTHER -> check_runs_valid(benchmark_runs, order))
      [] rules_checker = "TrainingSubmissionRulesChecker" ->
            (CASE method = "check_num_runs" -> Training_check_num_runs(benchmark_runs)
               [] OTHER -> check_runs_valid(benchmark_runs, order))

\* Lines 473-487: one turn of the loop of run_checks on the issues so far
AfterCheckMutSwallow(issues, method, result) ==
    IF result.raised = "none" THEN issues \o result.issues ELSE issues

AfterCheck(issues, method, result) ==
    IF result.raised = "none" THEN issues \o result.issues
    ELSE Append(issues,
                Issue(INVALID,
                      "Check " \o method \o " failed with error: " \o result.message,
                      None, None, None))


(***************************************************************************)
(* BenchmarkVerifier                                                       *)
(***************************************************************************)
\* Lines 787-790: the checker of a single run
SingleCheckerMutAlwaysTraining(benchmark_type) == Some("TrainingRunRulesChecker")

SingleChecker(benchmark_type) ==
    IF benchmark_type = Some(training) THEN Some("TrainingRunRulesChecker")
    ELSE IF benchmark_type = Some(checkpointing) THEN Some("CheckpointingRunRulesChecker")
    ELSE None

\* Lines 799-802: the checker of a submission
MultiChecker(benchmark_type) ==
    IF benchmark_type = Some(checkpointing) THEN Some("CheckpointSubmissionRulesChecker")
    ELSE IF benchmark_type = Some(training) THEN Some("TrainingSubmissionRulesChecker")
    ELSE None

\* Line 794: the runs of a submission are of more than one benchmark type
MixedTypesMutNever(benchmark_types) == FALSE

MixedTypes(benchmark_types) == Cardinality(benchmark_types) > 1

NoVerifier(e) ==
    [raised |-> e,
     verifier |-> [mode |-> "none", benchmark_runs |-> <<>>, rules_checker |-> None,
                   issues |-> <<>>, checker_issues |-> <<>>]]

\* Lines 767-802: BenchmarkVerifier(*benchmark_runs) for runs that are
\* BenchmarkRun objects; ids are their object ids, heap the objects
BenchmarkVerifier(ids, heap) ==
    IF Len(ids) = 0 THEN NoVerifier("ValueError")
    ELSE IF Len(ids) = 1
    THEN [raised |-> "none",
          verifier |-> [mode |-> "single", benchmark_runs |-> ids,
                        rules_checker |-> SingleChecker(heap[ids[1]][1].benchmark_type),
                        issues |-> <<>>, checker_issues |-> <<>>]]
    ELSE LET benchmark_types == {heap[ids[i]][1].benchmark_type : i \in 1..Len(ids)} IN
         IF MixedTypes(benchmark_types) THEN NoVerifier("ValueError")
         ELSE [raised |-> "none",
               verifier |-> [mode |-> "multi", benchmark_runs |-> ids,
                             rules_checker |->
                                 MultiChecker(CHOOSE t \in benchmark_types : TRUE),
                             issues |-> <<>>, checker_issues |-> <<>>]]

RECURSIVE CountValidation(_, _)
CountValidation(issues, validation) ==
    IF issues = <<>> THEN 0
    ELSE (IF issues[1].validation = validation THEN 1 ELSE 0)
         + CountValidation(Tail(issues), validation)

\* Lines 831-845: the category of the counted issues
CategoryOfCountsMutOpenFirst(num_invalid, num_open) ==
    IF num_open > 0 THEN OPEN
    ELSE IF num_invalid > 0 THEN INVALID
    ELSE CLOSED

CategoryOfCounts(num_invalid, num_open) ==
    IF num_invalid > 0 THEN INVALID
    ELSE IF num_open > 0 THEN OPEN
    ELSE CLOSED

\* Lines 811-845: the category verify reduces a list of issues to
ResolveCategoryMutFirstIssue(issues) ==
    IF issues = <<>> THEN CLOSED ELSE issues[1].validation

ResolveCategory(issues) ==
    CategoryOfCounts(CountValidation(issues, INVALID), CountValidation(issues, OPEN))

\* Lines 828-829, 834, 838, 843: what verify writes onto the run in single mode
WriteBackMutCategoryOnly(mode, run, issues, category) ==
    IF mode = "single" THEN [run EXCEPT !.category = category]
    ELSE run

WriteBackMutAnyMode(mode, run, issues, category) ==
    [run EXCEPT !.issues = issues, !.category = category]

WriteBack(mode, run, issues, category) ==
    IF mode = "single" THEN [run EXCEPT !.issues = issues, !.category = category]
    ELSE run

(***************************************************************************)
(* The operations of a caller                                              *)
(***************************************************************************)
FreeIds == {r \in RunIds : runs[r] = None}
NextFreeId == CHOOSE r \in FreeIds : \A q \in FreeIds : r <= q

Given(optional) == Len(optional) = 1

\* run = BenchmarkRun(benchmark_result=..., benchmark_instance=..., logger=...)
NewBenchmarkRun(benchmark_result, benchmark_instance) ==
    /\ pc = "idle"
    /\ FreeIds # {}
    /\ LET made == BenchmarkRun(benchmark_result, benchmark_instance) IN
       /\ runs' = IF made.raised = "none"
                  THEN [runs EXCEPT ![NextFreeId] = Some(made.run)]
                  ELSE runs
       /\ outcome' = [NoOutcome EXCEPT
                        !.call = "BenchmarkRun",
                        !.raised = made.raised,
                        !.sources = <<Given(benchmark_result), Given(benchmark_instance)>>,
                        !.run = IF made.raised = "none" THEN NextFreeId ELSE 0]
    /\ UNCHANGED <<verifier, pc, ck, log>>
    /\ UNCHANGED <<szvars, exvars>>

\* verifier = BenchmarkVerifier(*runs, logger=...) on BenchmarkRun objects
NewBenchmarkVerifier(ids) ==
    /\ pc = "idle"
    /\ \A i \in 1..Len(ids) : runs[ids[i]] # None
    /\ LET made == BenchmarkVerifier(ids, runs) IN
       /\ verifier' = IF made.raised = "none" THEN Some(made.verifier) ELSE None
       /\ outcome' = [NoOutcome EXCEPT
                        !.call = "BenchmarkVerifier",
                        !.raised = made.raised,
                        !.arguments = ids]
    /\ UNCHANGED <<runs, pc, ck, log>>
    /\ UNCHANGED <<szvars, exvars>>

\* Lines 780-784: verifier = BenchmarkVerifier(benchmark, logger=...) on a
\* Benchmark object, which the verifier maps to a BenchmarkRun of its own
NewBenchmarkVerifierOfBenchmark(benchmark_instance) ==
    /\ pc = "idle"
    /\ FreeIds # {}
    /\ LET run == BenchmarkRun(None, Some(benchmark_instance))
           heap == [runs EXCEPT ![NextFreeId] = Some(run.run)]
       IN
       /\ runs' = IF run.raised = "none" THEN heap ELSE runs
       /\ verifier' = IF run.raised = "none"
                      THEN Some(BenchmarkVerifier(<<NextFreeId>>, heap).verifier)
                      ELSE None
       /\ outcome' = [NoOutcome EXCEPT
                        !.call = "BenchmarkVerifier",
                        !.raised = run.raised,
                        !.sources = <<FALSE, TRUE>>,
                        !.arguments = IF run.raised = "none" THEN <<NextFreeId>> ELSE <<>>,
                        !.run = IF run.raised = "none" THEN NextFreeId ELSE 0]
    /\ UNCHANGED <<pc, ck, log>>
    /\ UNCHANGED <<szvars, exvars>>

RunsOf(v) == [i \in 1..Len(v.benchmark_runs) |-> runs[v.benchmark_runs[i]][1]]

\* Lines 805-809: in multi mode the run ids are joined, which takes strings;
\* the run id of a run made from a live benchmark is a RunID object
JoinFails(v) ==
    /\ v.mode = "multi"
    /\ \E i \in 1..Len(v.benchmark_runs) : ~RunsOf(v)[i].post_execution

VerifyRaises(e) ==
    /\ outcome' = [NoOutcome EXCEPT !.call = "verify", !.raised = e]
    /\ log' = <<>>
    /\ UNCHANGED <<runs, verifier, pc, ck>>
    /\ UNCHANGED <<szvars, exvars>>

\* verifier.verify(), lines 805-810 and 471: up to the loop of run_checks
VerifyBegin ==
    /\ pc = "idle"
    /\ Given(verifier)
    /\ \/ /\ JoinFails(verifier[1])
          /\ VerifyRaises("TypeError")
       \/ /\ ~JoinFails(verifier[1])
          /\ ~Given(verifier[1].rules_checker)
          /\ VerifyRaises("AttributeError")
       \/ /\ ~JoinFails(verifier[1])
          /\ Given(verifier[1].rules_checker)
          /\ pc' = "run_checks"
          /\ ck' = 1
          /\ verifier' = Some([verifier[1] EXCEPT !.checker_issues = <<>>])
          /\ log' = <<>>
          /\ outcome' = [NoOutcome EXCEPT !.call = "verify", !.raised = "running"]
          /\ UNCHANGED runs
          /\ UNCHANGED <<szvars, exvars>>

\* Lines 472-487: one turn of the loop of run_checks
RunCheck ==
    /\ pc = "run_checks"
    /\ LET v == verifier[1]
           methods == check_methods(v.rules_checker[1])
       IN
       /\ ck <= Len(methods)
       /\ \E order \in IterationOrdersOf(RunsOf(v)) :
          LET result == CallCheck(v.rules_checker[1], methods[ck], RunsOf(v), order) IN
          /\ verifier' =
                Some([v EXCEPT !.checker_issues = AfterCheck(@, methods[ck], result)])
          /\ log' = log \o << <<"debug", methods[ck], "">> >>
                        \o (IF result.raised = "none" THEN <<>>
                            ELSE << <<"error", methods[ck], result.message>> >>)
       /\ ck' = ck + 1
    /\ UNCHANGED <<runs, pc, outcome>>
    /\ UNCHANGED <<szvars, exvars>>

\* Lines 815-826: an issue that is of none of the three categories
UnknownValidation(issues) ==
    \E i \in 1..Len(issues) : issues[i].validation \notin {INVALID, CLOSED, OPEN}

\* Lines 489 and 810-845: run_checks returns, verify counts the issues,
\* writes the run in single mode and returns the category
VerifyEnd ==
    /\ pc = "run_checks"
    /\ LET v == verifier[1]
           issues == v.checker_issues
           category == ResolveCategory(issues)
           first == v.benchmark_runs[1]
       IN
       /\ ck > Len(check_methods(v.rules_checker[1]))
       /\ verifier' = Some([v EXCEPT !.issues = issues])
       /\ IF UnknownValidation(issues)
          THEN /\ outcome' = [NoOutcome EXCEPT !.call = "verify", !.raised = "ValueError"]
               /\ UNCHANGED runs
          ELSE /\ runs' = [runs EXCEPT
                             ![first] = Some(WriteBack(v.mode, @[1], issues, category))]
               /\ outcome' = [NoOutcome EXCEPT !.call = "verify", !.category = category]
    /\ pc' = "idle"
    /\ ck' = 0
    /\ UNCHANGED log
    /\ UNCHANGED <<szvars, exvars>>

(***************************************************************************)
(* The objects a caller holds: live benchmarks and result directories      *)
(***************************************************************************)
\* one client host as collect_cluster_information reports it
HostInfo(memory_gb, num_cores) ==
    [memory |-> [total |-> BigMul(BigOfInt(memory_gb), GiB)],
     cpu |-> Some([num_cores |-> num_cores])]

\* the workload configuration of a training run: with one sample per file of
\* 2^30 bytes and one process, 500 files are required on a 2 GiB cluster
TrainingParams(name, num_files_train, odirect) ==
    [model |-> [name |-> Some(name)],
     dataset |-> [num_files_train |-> num_files_train, num_samples_per_file |-> 1,
                  record_length_bytes |-> 1073741824],
     reader |-> [batch_size |-> 1, odirect |-> odirect],
     workflow |-> [generate_data |-> FALSE, train |-> TRUE, checkpoint |-> TRUE]]

\* a configuration that has no reader section
NoReaderParams(name, num_files_train) ==
    [model |-> [name |-> Some(name)],
     dataset |-> [num_files_train |-> num_files_train, num_samples_per_file |-> 1,
                  record_length_bytes |-> 1073741824],
     workflow |-> [generate_data |-> FALSE, train |-> TRUE, checkpoint |-> TRUE]]

CheckpointParams(name, num_checkpoints_write, num_checkpoints_read) ==
    [model |-> [name |-> Some(name)],
     checkpoint |-> [num_checkpoints_write |-> num_checkpoints_write,
                     num_checkpoints_read |-> num_checkpoints_read],
     workflow |-> [generate_data |-> FALSE, train |-> FALSE, checkpoint |-> TRUE]]

RESNET == <<"resnet50">>

ClosedOverride == <<Key("dataset", "num_files_train"), <<"700">>>>
OpenOverride == <<Key("dataset", "format"), <<"npz">>>>
InvalidOverride == <<Key("dataset", "record_length_bytes"), <<"1">>>>

\* a Benchmark object of mlpstorage.benchmarks
Benchmark(BENCHMARK_TYPE, model, combined_params, params_dict) ==
    [BENCHMARK_TYPE |-> BENCHMARK_TYPE,
     args |-> [model |-> model, command |-> "run_benchmark", num_processes |-> Some(1)],
     run_datetime |-> "20250101_120000",
     combined_params |-> combined_params,
     params_dict |-> params_dict,
     cluster_information |-> Some(ClusterInformation(<<HostInfo(2, 8)>>))]

Instances ==
    { Benchmark(training, RESNET, TrainingParams(RESNET, 400, 1),
                <<ClosedOverride, InvalidOverride, OpenOverride>>),
      Benchmark(training, UNET, NoReaderParams(UNET, 700), <<OpenOverride>>),
      Benchmark(vector_database, <<"default">>, EmptyDict, <<>>) }

\* the lines of overrides.yaml
WorkloadLine(name, accelerator) == <<"workload", "=", name, "_", accelerator>>
OverrideLine(item) == WorkloadPrefix \o item[1] \o <<"=">> \o item[2]

\* a result directory as the result reader presents it
BenchmarkResult(dir, workload, overrides) ==
    [benchmark_result_root_dir |-> dir,
     summary |-> Some([num_accelerators |-> 1, start |-> "2025-01-01T12:00:00",
                       metric |-> EmptyDict, host_memory_GB |-> <<2>>,
                       host_cpu_count |-> <<8>>]),
     hydra_configs |-> [x \in {"config.yaml", "overrides.yaml"} |->
                          IF x = "config.yaml" THEN [workload |-> workload]
                          ELSE overrides]]

Results ==
    { BenchmarkResult("results/training/unet3d/run/1",
                      TrainingParams(<<"unet3d">>, 700, 1),
                      <<WorkloadLine("unet3d", "h100"), OverrideLine(ClosedOverride)>>),
      BenchmarkResult("results/training/resnet50/run/2",
                      TrainingParams(<<"resnet50">>, 700, 0),
                      <<WorkloadLine("resnet50", "h100"), OverrideLine(OpenOverride)>>),
      BenchmarkResult("results/checkpointing/llama3-8b/3",
                      CheckpointParams(<<"llama", "_", "8b">>, 10, 10), <<>>),
      BenchmarkResult("results/unknown/4",
                      [model |-> [name |-> Some(<<"unet3d">>)]], <<>>) }

Optional(S) == {None} \cup {Some(x) : x \in S}

\* the argument lists a caller builds from the runs it holds
RunLists ==
    { ids \in UNION {[1..n -> RunIds] : n \in 0..MaxRuns} :
        \A i \in 1..Len(ids) : \A j \in 1..Len(ids) : i < j => ids[i] < ids[j] }

Init ==
    /\ VerifierInit
    /\ szcall = ScenarioCall
    /\ szret = SizingRaise("notcalled")
    /\ szprev = [call |-> ScenarioCall, ret |-> SizingRaise("notcalled")]

Next ==
    \/ \E benchmark_result \in Optional(Results) :
         \E benchmark_instance \in Optional(Instances) :
            NewBenchmarkRun(benchmark_result, benchmark_instance)
    \/ \E ids \in RunLists : NewBenchmarkVerifier(ids)
    \/ \E benchmark_instance \in Instances :
            NewBenchmarkVerifierOfBenchmark(benchmark_instance)
    \/ VerifyBegin
    \/ RunCheck
    \/ VerifyEnd

Spec == Init /\ [][Next]_vars

(***************************************************************************)
(* A training benchmark that verifies itself before it runs: one live      *)
(* benchmark, its overrides and its effective parameters                   *)
(***************************************************************************)
MaxOverrides == 2

\* the --params a submitter may give: one that is allowed for CLOSED, one
\* for OPEN, one in neither list, one of the workflow namespace, one whose
\* section only begins with the letters of "workflow", and direct I/O
OverrideItems ==
    << <<Key("reader", "read_threads"), <<"8">>>>,
       <<Key("dataset", "format"), <<"npz">>>>,
       <<Key("dataset", "num_files_eval"), <<"0">>>>,
       <<Key("workflow", "checkpoint"), <<"True">>>>,
       <<<<"workflow", "s", ".", "checkpoint">>, <<"True">>>>,
       <<Key("reader", "odirect"), <<"1">>>> >>

\* the items of the chosen positions, in the order they were given
RECURSIVE PickItems(_, _, _)
PickItems(items, chosen, i) ==
    IF i > Len(items) THEN <<>>
    ELSE (IF i \in chosen THEN <<items[i]>> ELSE <<>>) \o PickItems(items, chosen, i + 1)

OverrideChoices ==
    { PickItems(OverrideItems, chosen, 1) :
        chosen \in {c \in SUBSET (1..Len(OverrideItems)) : Cardinality(c) <= MaxOverrides} }

HasOverride(params_dict, key) == \E i \in 1..Len(params_dict) : params_dict[i][1] = key

\* the dataset section, with num_files_train or without it
DatasetSection(num_files_train) ==
    IF num_files_train = None
    THEN [num_samples_per_file |-> 1, record_length_bytes |-> 1073741824]
    ELSE [num_files_train |-> num_files_train[1], num_samples_per_file |-> 1,
          record_length_bytes |-> 1073741824]

\* the workflow section, the checkpoint stage enabled, disabled or unspecified
WorkflowSection(checkpoint) ==
    IF checkpoint = None
    THEN [generate_data |-> FALSE, train |-> TRUE]
    ELSE [generate_data |-> FALSE, train |-> TRUE, checkpoint |-> checkpoint[1]]

\* the effective parameters of a training benchmark
CombinedParams(name, num_files_train, odirect, checkpoint) ==
    [model |-> [name |-> Some(name)],
     dataset |-> DatasetSection(num_files_train),
     reader |-> [batch_size |-> 1, odirect |-> odirect],
     workflow |-> WorkflowSection(checkpoint)]

\* num_files_train: missing, one below the 500 files that the sizing asks
\* for on the 2 GiB cluster, and exactly as many
FileCounts == {None, Some(499), Some(500)}

TrainingCommands == {"run_benchmark", "datagen"}

\* the effective parameters hold what the overrides set
Effective(params_dict, odirect, checkpoint) ==
    /\ HasOverride(params_dict, Key("reader", "odirect")) => odirect = 1
    /\ HasOverride(params_dict, Key("workflow", "checkpoint")) => checkpoint = Some(TRUE)

\* a training benchmark with its combined_params
TrainingBenchmark(model, command, combined_params, params_dict) ==
    [BENCHMARK_TYPE |-> training,
     args |-> [model |-> model, command |-> command, num_processes |-> Some(1)],
     run_datetime |-> "20250101_120000",
     combined_params |-> combined_params,
     params_dict |-> params_dict,
     cluster_information |-> Some(ClusterInformation(<<HostInfo(2, 8)>>))]

\* a training benchmark that has no combined_params attribute
TrainingBenchmarkOfArgs(model, command, params_dict) ==
    [BENCHMARK_TYPE |-> training,
     args |-> [model |-> model, command |-> command, num_processes |-> Some(1)],
     run_datetime |-> "20250101_120000",
     params_dict |-> params_dict,
     cluster_information |-> Some(ClusterInformation(<<HostInfo(2, 8)>>))]

TrainingChoices ==
    { c \in {UNET, RESNET} \X TrainingCommands \X FileCounts \X OverrideChoices
            \X {0, 1} \X Optional(BOOLEAN) :
        Effective(c[4], c[5], c[6]) }

TrainingBenchmarks ==
    { TrainingBenchmark(c[1], c[2], CombinedParams(c[1], c[3], c[5], c[6]), c[4]) :
        c \in TrainingChoices }
    \cup
    { TrainingBenchmarkOfArgs(model, command, params_dict) :
        model \in {UNET, RESNET}, command \in TrainingCommands,
        params_dict \in OverrideChoices }

\* Lines 780-784, for the first object of the process: the benchmark makes
\* the verifier of itself
VerifyOwnBenchmark(benchmark_instance) ==
    /\ \A r \in RunIds : runs[r] = None
    /\ NewBenchmarkVerifierOfBenchmark(benchmark_instance)

TrainingNext ==
    \/ \E benchmark_instance \in TrainingBenchmarks : VerifyOwnBenchmark(benchmark_instance)
    \/ VerifyBegin
    \/ RunCheck
    \/ VerifyEnd

SpecTraining == Init /\ [][TrainingNext]_vars



(***************************************************************************)
(* A checkpointing submission: result directories whose runs split the     *)
(* checkpoint writes and reads among them                                  *)
(***************************************************************************)
\* num_checkpoints_write and num_checkpoints_read of the result directories
CheckpointCounts == << <<10, 0>>, <<0, 10>>, <<10, 10>>, <<10, 7>>, <<0, 3>> >>

LLAMA == <<"llama", "_", "8b">>

\* a checkpointing workload that has no checkpoint section
NoCheckpointParams(name) ==
    [model |-> [name |-> Some(name)],
     workflow |-> [generate_data |-> FALSE, train |-> FALSE, checkpoint |-> TRUE]]

CheckpointResults ==
    { BenchmarkResult("results/checkpointing/llama3-8b/" \o ToString(i),
                      CheckpointParams(LLAMA, CheckpointCounts[i][1], CheckpointCounts[i][2]),
                      <<>>) : i \in 1..Len(CheckpointCounts) }
    \cup { BenchmarkResult("results/checkpointing/llama3-8b/0", NoCheckpointParams(LLAMA), <<>>) }
    \cup { BenchmarkResult("results/checkpointing/llama3-70b/1",
                            CheckpointParams(<<"llama", "_", "70b">>, 10, 10),
                            <<OverrideLine(InvalidOverride)>>) }

\* a directory below results_dir as os.walk shows it: the number of its
\* files whose name ends in _metadata.json, whether summary.json is one of
\* its files, and what BenchmarkResult loads from it
ResultDirectory(metadata_files, summary_file, benchmark_result) ==
    [metadata_files |-> metadata_files, summary_file |-> summary_file,
     result |-> benchmark_result]

\* the run directories of results/checkpointing/llama3-8b: the complete ones,
\* one without a metadata file, one with two of them, one without
\* summary.json, and one whose config.yaml names no model
DirectoryPool ==
    { ResultDirectory(1, TRUE, r) :
        r \in { x \in CheckpointResults : x.hydra_configs["overrides.yaml"] = <<>> } }
    \cup { ResultDirectory(0, TRUE,
              BenchmarkResult("results/checkpointing/llama3-8b/6",
                              CheckpointParams(LLAMA, 10, 10), <<>>)),
           ResultDirectory(2, TRUE,
              BenchmarkResult("results/checkpointing/llama3-8b/7",
                              CheckpointParams(LLAMA, 10, 10), <<>>)),
           ResultDirectory(1, FALSE,
              [BenchmarkResult("results/checkpointing/llama3-8b/8",
                               CheckpointParams(LLAMA, 10, 10), <<>>)
                 EXCEPT !.summary = None]),
           ResultDirectory(1, TRUE,
              BenchmarkResult("results/checkpointing/llama3-8b/9",
                  [workflow |-> [generate_data |-> FALSE, train |-> FALSE,
                                 checkpoint |-> TRUE]], <<>>)) }

\* the directories os.walk finds below one results_dir
ResultTrees == { tree \in SUBSET DirectoryPool : Cardinality(tree) \in 1..MaxRuns }

\* os.walk lists the directories of one parent in the order of the file
\* system, which is any order
WalkOrders(tree) ==
    { walk \in [1..Cardinality(tree) -> tree] :
        \A i \in 1..Cardinality(tree) : \A j \in 1..Cardinality(tree) :
            i # j => walk[i] # walk[j] }

\* a results_dir that does not exist, or the walk of one that does
ResultsDirs ==
    {None} \cup UNION { { Some(walk) : walk \in WalkOrders(tree) } : tree \in ResultTrees }

\* Lines 1028-1053: the loop over the directories; a directory without
\* exactly one metadata file or without summary.json adds no run, and a
\* constructor that raises ends the call
RECURSIVE WalkRuns(_, _)
WalkRuns(walk, built) ==
    IF walk = <<>> THEN [raised |-> "none", runs |-> built]
    ELSE LET directory == Head(walk) IN
         IF directory.metadata_files = 0 THEN WalkRuns(Tail(walk), built)
         ELSE IF directory.metadata_files > 1 THEN WalkRuns(Tail(walk), built)
         ELSE IF ~directory.summary_file THEN WalkRuns(Tail(walk), built)
         ELSE LET made == BenchmarkRun(Some(directory.result), None) IN
              IF made.raised # "none" THEN [raised |-> made.raised, runs |-> <<>>]
              ELSE WalkRuns(Tail(walk), Append(built, made.run))

get_runs_files(results_dir) ==
    IF results_dir = None THEN [raised |-> "none", runs |-> <<>>]
    ELSE WalkRuns(results_dir[1], <<>>)

\* the first n free object ids, in ascending order
FirstFreeIds(n) ==
    [i \in 1..n |-> CHOOSE r \in FreeIds : Cardinality({q \in FreeIds : q <= r}) = i]

\* a caller that holds no run yet reads all the runs below results_dir
GetRunsFiles(results_dir) ==
    /\ pc = "idle"
    /\ \A r \in RunIds : runs[r] = None
    /\ LET got == get_runs_files(results_dir) IN
       /\ Len(got.runs) <= Cardinality(FreeIds)
       /\ LET ids == FirstFreeIds(Len(got.runs)) IN
          /\ runs' = [r \in RunIds |->
                        IF \E i \in 1..Len(ids) : ids[i] = r
                        THEN Some(got.runs[CHOOSE i \in 1..Len(ids) : ids[i] = r])
                        ELSE runs[r]]
          /\ outcome' = [NoOutcome EXCEPT
                           !.call = "get_runs_files",
                           !.raised = got.raised,
                           !.returned = ids]
    /\ UNCHANGED <<verifier, pc, ck, log>>
    /\ UNCHANGED <<szvars, exvars>>

CheckpointNext ==
    \/ \E benchmark_result \in CheckpointResults :
            NewBenchmarkRun(Some(benchmark_result), None)
    \/ \E results_dir \in ResultsDirs : GetRunsFiles(results_dir)
    \/ \E ids \in RunLists : NewBenchmarkVerifier(ids)
    \/ VerifyBegin
    \/ RunCheck
    \/ VerifyEnd

SpecCheckpoint == Init /\ [][CheckpointNext]_vars


(***************************************************************************)
(* A run read back from a result directory: the workflow stages the        *)
(* configuration records as executed                                       *)
(***************************************************************************)
\* a stage is absent from the workflow section, False or True
StageChoices == Optional(BOOLEAN)

\* the workflow section with the stages that are given
StagedWorkflow(generate_data, train, checkpoint) ==
    LET given == [generate_data |-> generate_data, train |-> train,
                  checkpoint |-> checkpoint]
    IN  [stage \in {s \in DOMAIN given : given[s] # None} |-> given[stage][1]]

StagedParams(workflow) ==
    [model |-> [name |-> Some(UNET)],
     dataset |-> [num_files_train |-> 700, num_samples_per_file |-> 1,
                  record_length_bytes |-> 1073741824],
     reader |-> [batch_size |-> 1, odirect |-> 0],
     workflow |-> workflow]

\* overrides.yaml with the workload line or without it
StagedOverrides == {<<WorkloadLine("unet3d", "h100")>>, <<>>}

StagedResults ==
    { BenchmarkResult("results/training/unet3d/run/1",
                      StagedParams(StagedWorkflow(c[1], c[2], c[3])), c[4]) :
        c \in StageChoices \X StageChoices \X StageChoices \X StagedOverrides }
    \cup { BenchmarkResult("results/unknown/4", [model |-> [name |-> Some(UNET)]], <<>>) }

\* run = BenchmarkRun(benchmark_result=...) as the first object of a caller
ReadResult(benchmark_result) ==
    /\ \A r \in RunIds : runs[r] = None
    /\ NewBenchmarkRun(Some(benchmark_result), None)

\* BenchmarkVerifier(run) on the run that was read
VerifyReadRun == NewBenchmarkVerifier(<<1>>)

ResultNext ==
    \/ \E benchmark_result \in StagedResults : ReadResult(benchmark_result)
    \/ VerifyReadRun
    \/ VerifyBegin
    \/ RunCheck
    \/ VerifyEnd

SpecResult == Init /\ [][ResultNext]_vars


(***************************************************************************)
(* The checks of a checker taken in any order: check_methods is a list of  *)
(* the checker object, and run_checks goes through it as it finds it       *)
(***************************************************************************)
\* the live benchmarks and the result directories of this specification
OrderResults ==
    { r \in CheckpointResults :
        "checkpoint" \in DOMAIN r.hydra_configs["config.yaml"].workload }

\* verifier.verify() up to the loop of run_checks; ck is the sequence of the
\* positions of check_methods that the loop has been through
VerifyBeginAnyOrder ==
    /\ pc = "idle"
    /\ Given(verifier)
    /\ \/ /\ JoinFails(verifier[1])
          /\ VerifyRaises("TypeError")
       \/ /\ ~JoinFails(verifier[1])
          /\ ~Given(verifier[1].rules_checker)
          /\ VerifyRaises("AttributeError")
       \/ /\ ~JoinFails(verifier[1])
          /\ Given(verifier[1].rules_checker)
          /\ pc' = "run_checks"
          /\ ck' = <<>>
          /\ verifier' = Some([verifier[1] EXCEPT !.checker_issues = <<>>])
          /\ log' = <<>>
          /\ outcome' = [NoOutcome EXCEPT !.call = "verify", !.raised = "running"]
          /\ UNCHANGED runs
          /\ UNCHANGED <<szvars, exvars>>

\* the number of checks of the sequence taken that were taken while a check
\* listed before them was still to come
OutOfTurn(taken) ==
    Cardinality({ i \in 1..Len(taken) :
                    \E m \in 1..(taken[i] - 1) : \A j \in 1..(i - 1) : taken[j] # m })

\* how many checks of one call a list of checks may hold out of turn
MaxOutOfTurn == 1

\* Lines 472-487: one turn of the loop, on the check the list has next
RunAnyCheck ==
    /\ pc = "run_checks"
    /\ LET v == verifier[1]
           methods == check_methods(v.rules_checker[1])
       IN
       \E k \in (1..Len(methods)) \ {ck[i] : i \in 1..Len(ck)} :
       \E order \in IterationOrdersOf(RunsOf(v)) :
          LET result == CallCheck(v.rules_checker[1], methods[k], RunsOf(v), order) IN
          /\ verifier' =
                Some([v EXCEPT !.checker_issues = AfterCheck(@, methods[k], result)])
          /\ log' = log \o << <<"debug", methods[k], "">> >>
                        \o (IF result.raised = "none" THEN <<>>
                            ELSE << <<"error", methods[k], result.message>> >>)
          /\ OutOfTurn(Append(ck, k)) <= MaxOutOfTurn
          /\ ck' = Append(ck, k)
    /\ UNCHANGED <<runs, pc, outcome>>
    /\ UNCHANGED <<szvars, exvars>>

\* Lines 489 and 810-845, after the last check of the list
VerifyEndAnyOrder ==
    /\ pc = "run_checks"
    /\ LET v == verifier[1]
           issues == v.checker_issues
           category == ResolveCategory(issues)
           first == v.benchmark_runs[1]
       IN
       /\ Len(ck) = Len(check_methods(v.rules_checker[1]))
       /\ verifier' = Some([v EXCEPT !.issues = issues])
       /\ IF UnknownValidation(issues)
          THEN /\ outcome' = [NoOutcome EXCEPT !.call = "verify", !.raised = "ValueError"]
               /\ UNCHANGED runs
          ELSE /\ runs' = [runs EXCEPT
                             ![first] = Some(WriteBack(v.mode, @[1], issues, category))]
               /\ outcome' = [NoOutcome EXCEPT !.call = "verify", !.category = category]
    /\ pc' = "idle"
    /\ ck' = 0
    /\ UNCHANGED log
    /\ UNCHANGED <<szvars, exvars>>

\* run = BenchmarkRun(benchmark_result=...) of a caller that holds no run of
\* a live benchmark
ReadCheckpointResult(benchmark_result) ==
    /\ \A r \in RunIds : runs[r] # None => runs[r][1].post_execution
    /\ NewBenchmarkRun(Some(benchmark_result), None)

\* a caller verifies one live benchmark, or reads result directories of
\* checkpointing runs and verifies them one by one or as a submission
OrderNext ==
    \/ \E benchmark_instance \in Instances : VerifyOwnBenchmark(benchmark_instance)
    \/ \E benchmark_result \in OrderResults : ReadCheckpointResult(benchmark_result)
    \/ \E ids \in RunLists : NewBenchmarkVerifier(ids)
    \/ VerifyBeginAnyOrder
    \/ RunAnyCheck
    \/ VerifyEndAnyOrder

SpecOrder == Init /\ [][OrderNext]_vars


(***************************************************************************)
(* A ClusterInformation object in the hands of a caller                    *)
(***************************************************************************)
MaxHosts == 2
MaxTotalMemGB == 8

\* hosts as HostInfo.from_dict makes them: with a cpu, or with cpu = None
HostPool ==
    { HostInfo(1, 4), HostInfo(2, 8),
      [memory |-> [total |-> BigMul(BigOfInt(2), GiB)], cpu |-> None] }

HostLists == UNION {[1..n -> HostPool] : n \in 0..MaxHosts}

\* the arrays of a DLIO summary.json
SummaryPool ==
    { [host_memory_GB |-> gb, host_cpu_count |-> cpus] :
        gb \in {<<1>>, <<1, 2>>, <<2, 2>>}, cpus \in {<<4>>, <<4, 8>>} }

\* Lines 222-226: every call adds the values of the hosts to the totals
calculate_aggregated_info(self) ==
    [self EXCEPT
        !.total_memory_bytes = BigAdd(@, SumMemory(self.host_info_list)),
        !.total_cores = @ + SumCores(self.host_info_list)]

\* Lines 204-214: ClusterInformation(host_info_list, logger, calculate_aggregated_info)
NewClusterInformation(host_info_list, aggregate) ==
    /\ LET self == [host_info_list |-> host_info_list, total_memory_bytes |-> <<>>,
                    total_cores |-> 0]
       IN  clusterinfo' = Some(IF aggregate THEN calculate_aggregated_info(self) ELSE self)
    /\ outcome' = [NoOutcome EXCEPT !.call = "ClusterInformation"]
    /\ UNCHANGED <<runs, verifier, pc, ck, log, search>>
    /\ UNCHANGED szvars

\* Lines 228-237: ClusterInformation.from_dlio_summary_json(summary, logger)
ClusterFromSummary(summary) ==
    /\ LET made == from_dlio_summary_json(summary) IN
       /\ clusterinfo' = IF made.raised = "none" THEN made.cluster ELSE clusterinfo
       /\ outcome' = [NoOutcome EXCEPT !.call = "from_dlio_summary_json",
                                       !.raised = made.raised,
                                       !.arguments = <<summary>>]
    /\ UNCHANGED <<runs, verifier, pc, ck, log, search>>
    /\ UNCHANGED szvars

\* a further call of cluster.calculate_aggregated_info()
CalculateAggregatedInfo ==
    /\ clusterinfo # None
    /\ BigLess(clusterinfo[1].total_memory_bytes, BigMul(BigOfInt(MaxTotalMemGB), GiB))
    /\ clusterinfo' = Some(calculate_aggregated_info(clusterinfo[1]))
    /\ outcome' = [NoOutcome EXCEPT !.call = "calculate_aggregated_info"]
    /\ UNCHANGED <<runs, verifier, pc, ck, log, search>>
    /\ UNCHANGED szvars

ClusterNext ==
    \/ \E host_info_list \in HostLists : \E aggregate \in BOOLEAN :
          NewClusterInformation(host_info_list, aggregate)
    \/ \E summary \in SummaryPool \cup {[num_hosts |-> 1]} : ClusterFromSummary(summary)
    \/ CalculateAggregatedInfo

SpecCluster == Init /\ [][ClusterNext]_vars


(***************************************************************************)
(* Evaluator.evaluate of src/scripts/training/evaluate.py: the search for  *)
(* the number of accelerators a storage system sustains                    *)
(***************************************************************************)
MaxBaseline == 6
MaxBelow == 3

\* the models of the baselines, and accelerator utilisations around the two
\* thresholds
EvaluatedModels == {"cosmoflow", "resnet50"}
Utilisations == {69, 70, 89, 90}

\* Lines 46-53: the utilisation a model must reach
PassMark(model) == IF model = "cosmoflow" THEN 70 ELSE 90

\* Lines 36-65: one turn of the loop, metric being the mean or the maximum
\* of the utilisations measured with cur_acc accelerators
SearchTurn(s, metric) ==
    LET flag == IF metric >= PassMark(s.model) THEN 1 ELSE 0
        min_acc == IF flag = 1 THEN s.cur_acc ELSE s.min_acc
        max_acc == IF flag = 1 THEN s.max_acc ELSE s.cur_acc - 1
        cur_acc == IF flag = 1 THEN (s.max_acc + s.cur_acc) \div 2
                   ELSE (s.min_acc + s.cur_acc - 1) \div 2
        break == min_acc = max_acc - 1 \/ min_acc = max_acc
    IN  [s EXCEPT !.flag = flag, !.min_acc = min_acc, !.max_acc = max_acc,
                  !.cur_acc = cur_acc,
                  !.score = IF break THEN min_acc ELSE @,
                  !.num_accelerators = IF break THEN min_acc ELSE @,
                  !.pc = IF break THEN "done" ELSE "loop"]

\* Lines 26-35: evaluate(model, acc_type) up to the loop; num_accelerators is
\* the entry of the baselines for the model
Evaluate(model, num_accelerators) ==
    /\ search.pc = "idle"
    /\ search' = [pc |-> "loop", model |-> model, num_accelerators |-> num_accelerators,
                  announced |-> <<1, 2 * num_accelerators>>,
                  cur_acc |-> num_accelerators, min_acc |-> 1,
                  max_acc |-> 2 * num_accelerators, flag |-> 0, score |-> 0]
    /\ UNCHANGED <<szvars, vfvars, clusterinfo>>

\* one turn of the loop and, after the break, lines 67-68
TestAccelerators ==
    /\ search.pc = "loop"
    /\ search.cur_acc >= -MaxBelow
    /\ \E metric \in Utilisations : search' = SearchTurn(search, metric)
    /\ UNCHANGED <<szvars, vfvars, clusterinfo>>

EvaluateNext ==
    \/ \E model \in EvaluatedModels : \E num_accelerators \in 1..MaxBaseline :
          Evaluate(model, num_accelerators)
    \/ TestAccelerators

\* the loop goes on as long as it has not reached its break
SpecEvaluate == Init /\ [][EvaluateNext]_vars /\ WF_vars(TestAccelerators)

(***************************************************************************)
(* Properties of calculate_training_data_size, checked under SpecSizing    *)
(***************************************************************************)
\* the manual override of the memory is in force (lines 879 and 885)
ManualUsed(call) ==
    /\ Len(call.args) = 1
    /\ \/ call.args[1].client_host_memory_in_gb # 0 /\ call.args[1].num_client_hosts # 0
       \/ /\ "clienthost_host_memory_in_gb" \in DOMAIN call.args[1]
          /\ call.args[1].clienthost_host_memory_in_gb # 0
          /\ call.args[1].num_client_hosts = 0

\* total memory M of a call: measured, or per-host memory times host count
ClaimMemory(call) ==
    IF Len(call.args) = 0 THEN call.cluster_information[1].total_memory_bytes
    ELSE IF call.args[1].num_client_hosts # 0
    THEN BigMul(BigOfInt(call.args[1].client_host_memory_in_gb * call.args[1].num_client_hosts), GiB)
    ELSE BigMul(BigOfInt(call.args[1].clienthost_host_memory_in_gb * Len(call.args[1].hosts)), GiB)

\* process count P of a call
ClaimProcesses(call) ==
    IF Len(call.args) = 0 THEN call.num_processes[1] ELSE call.args[1].num_processes[1]

\* q = floor(a / b), stated without dividing
IsFloorQuotient(q, a, b) ==
    /\ ~BigLess(a, BigMul(q, b))
    /\ BigLess(a, BigMul(BigAdd(q, BigOfInt(1)), b))

\* the inputs C7 is about: a total memory from one of the two sources, a
\* process count, a batch size, samplesPerFile > 0 and recordLengthBytes > 0
SizingInputsGiven(call) ==
    LET m == SizingMemory(call.args, call.cluster_information, call.num_processes) IN
    /\ m.raised = "none"
    /\ Len(m.num_processes) = 1
    /\ "batch_size" \in DOMAIN call.reader_params
    /\ {"num_samples_per_file", "record_length_bytes"} \subseteq DOMAIN call.dataset_params
    /\ call.dataset_params.num_samples_per_file > 0
    /\ call.dataset_params.record_length_bytes > 0

\* the returned numbers are the ones of the formula
SizingFormulaHolds ==
    LET M == ClaimMemory(szcall)
        S == BigOfInt(szcall.dataset_params.num_samples_per_file)
        R == BigOfInt(szcall.dataset_params.record_length_bytes)
        PB == BigOfInt(ClaimProcesses(szcall) * szcall.reader_params.batch_size)
        bySize == szret.min_num_files_by_bytes
        bySamples == szret.min_num_files_by_samples
        rfc == szret.required_file_count
    IN  /\ IsFloorQuotient(bySize, BigMul(BigOfInt(5), M), BigMul(S, R))
        /\ IsFloorQuotient(bySamples, BigMul(BigOfInt(500), PB), S)
        /\ rfc \in {bySize, bySamples}
        /\ ~BigLess(rfc, bySize)
        /\ ~BigLess(rfc, bySamples)
        /\ szret.total_disk_bytes = BigMul(BigMul(rfc, S), R)
        /\ szret.required_subfolders_count = 0

\* C7: for every total memory M, samplesPerFile S > 0, recordLengthBytes R > 0,
\* batchSize B and processCount P the function returns
\* requiredFileCount = max(floor(5*M / (S*R)), floor(500*P*B / S)),
\* totalDiskBytes = requiredFileCount * S * R and requiredSubfolderCount = 0,
\* whichever of the two constraints is the binding one.
C7_SizingFormula ==
    (szret.raised # "notcalled" /\ SizingInputsGiven(szcall)) =>
        /\ szret.raised = "none"
        /\ SizingFormulaHolds

\* max(floor(5*M / (S*R)), floor(500*P*B / S)) of a call with the inputs of C7
ClaimFileCount(call) ==
    BigMax(BigFloorDiv(BigMul(BigOfInt(5), ClaimMemory(call)),
                       BigOfInt(call.dataset_params.num_samples_per_file
                                  * call.dataset_params.record_length_bytes)),
           BigFloorDiv(BigOfInt(500 * ClaimProcesses(call) * call.reader_params.batch_size),
                       BigOfInt(call.dataset_params.num_samples_per_file)))

\* what is left of C7: every call that returns, returns the numbers of the
\* formula, and a call with the inputs of C7 that does not return either has
\* a file count or a sample count of more than 4300 digits, which str() does
\* not convert, or a dataset whose size in KB is beyond the floats
C7_FormulaWhenReturned ==
    /\ szret.raised = "none" => SizingFormulaHolds
    /\ (szret.raised \notin {"notcalled", "none"} /\ SizingInputsGiven(szcall)) =>
          \/ /\ szret.raised = "ValueError"
             /\ \/ IntStrRaises(ClaimFileCount(szcall))
                \/ IntStrRaises(BigOfInt(500 * ClaimProcesses(szcall)
                                             * szcall.reader_params.batch_size))
          \/ /\ szret.raised = "OverflowError"
             /\ szret.required_file_count = ClaimFileCount(szcall)
             /\ ~IntStrRaises(szret.required_file_count)
             /\ TrueDivOverflows(BigMul(szret.required_file_count,
                    BigOfInt(szcall.dataset_params.num_samples_per_file
                               * szcall.dataset_params.record_length_bytes)))

\* a cluster of 2 * 10**4299 bytes with files of one byte: the file count
\* 10**4300 has 4301 digits and line 906 raises before anything is logged
C7_WitnessDigitLimit ==
    /\ SizingInputsGiven(szcall)
    /\ Len(ClaimMemory(szcall)) = MaxStrDigits
    /\ Len(ClaimFileCount(szcall)) = MaxStrDigits + 1
    /\ szret.raised = "ValueError"
    /\ szret.message = IntStrMessage
    /\ szret.logged = 0

\* the same cluster with files of two bytes: the file count has 4300 digits,
\* the four numbers are logged and line 910 raises
C7_WitnessAtDigitLimit ==
    /\ SizingInputsGiven(szcall)
    /\ Len(ClaimMemory(szcall)) = MaxStrDigits
    /\ szret.raised = "OverflowError"
    /\ szret.logged = 4
    /\ Len(szret.required_file_count) = MaxStrDigits

\* the memory M was raised from 3 * 10**310 to 4 * 10**310 bytes with S = 1:
\* the first call returned 15 * 10**310 files, the second one raised on the
\* way to 2 * 10**311 files
C7_Witness ==
    /\ szprev.ret.raised = "none"
    /\ SizingInputsGiven(szcall)
    /\ szcall.dataset_params.num_samples_per_file = 1
    /\ szret.raised = "OverflowError"
    /\ Len(szret.required_file_count) = 312
    /\ Len(szprev.ret.required_file_count) = 312
    /\ BigLess(szprev.ret.required_file_count, szret.required_file_count)

\* a step-driven result followed, with more memory, by a size-driven one
C7_WitnessBothBinding ==
    /\ szprev.ret.raised = "none"
    /\ szret.raised = "none"
    /\ BigLess(szprev.ret.min_num_files_by_bytes, szprev.ret.min_num_files_by_samples)
    /\ BigLess(szret.min_num_files_by_samples, szret.min_num_files_by_bytes)
    /\ szret.min_num_files_by_samples # <<>>
    /\ szret.required_file_count = szret.min_num_files_by_bytes

\* C8 as the spec states it: with 1 TiB of memory, samplesPerFile 1000,
\* recordLengthBytes 100000, batchSize 32 and processCount 8 the size-driven
\* minimum is 58982 files, the step-driven minimum 128, the result 58982.
C8_ScenarioAsStated ==
    (szcall = ScenarioCall /\ szret.raised # "notcalled") =>
        /\ szret.raised = "none"
        /\ szret.min_num_files_by_bytes = BigOfInt(58982)
        /\ szret.min_num_files_by_samples = BigOfInt(128)
        /\ szret.required_file_count = BigOfInt(58982)

\* C8, amended: in that scenario the size-driven minimum is
\* floor(5 * 2^40 / 10^8) = 54975 files, the step-driven minimum is 128 files,
\* and requiredFileCount = 54975.
C8_Scenario ==
    (szcall = ScenarioCall /\ szret.raised # "notcalled") =>
        /\ szret.raised = "none"
        /\ szret.min_num_files_by_bytes = BigOfInt(54975)
        /\ szret.min_num_files_by_samples = BigOfInt(128)
        /\ szret.required_file_count = BigOfInt(54975)

C8_Witness ==
    /\ szcall = ScenarioCall
    /\ szret.raised = "none"
    /\ szret.dictated_by = "dataset size to memory size ratio"

\* C9: with the dataset parameters fixed, a call with at least as much total
\* memory, at least as many processes and at least as large a batch size as
\* the call before it never returns a smaller requiredFileCount.
C9_Monotonic ==
    ( /\ szprev.ret.raised = "none"
      /\ szret.raised = "none"
      /\ szcall.dataset_params = szprev.call.dataset_params
      /\ ~BigLess(ClaimMemory(szcall), ClaimMemory(szprev.call))
      /\ ClaimProcesses(szcall) >= ClaimProcesses(szprev.call)
      /\ szcall.reader_params.batch_size >= szprev.call.reader_params.batch_size )
    => ~BigLess(szret.required_file_count, szprev.ret.required_file_count)

\* more memory than in the call before, and a larger file count for it
C9_Witness ==
    /\ szprev.ret.raised = "none"
    /\ szret.raised = "none"
    /\ BigLess(ClaimMemory(szprev.call), ClaimMemory(szcall))
    /\ ClaimProcesses(szcall) = ClaimProcesses(szprev.call)
    /\ szcall.reader_params = szprev.call.reader_params
    /\ BigLess(szprev.ret.required_file_count, szret.required_file_count)

\* C10 as the spec states it: a call that uses the manual memory override and
\* also passes a process count through the num_processes argument is an error.
C10_MixingIsAnError ==
    ( /\ szret.raised # "notcalled"
      /\ ManualUsed(szcall)
      /\ Len(szcall.num_processes) = 1 )
    => szret.raised # "none"

\* C10, amended: when the manual override is used the process count is the
\* one of the override source (args.num_processes); a num_processes argument
\* passed as well is ignored: it raises no error and changes no result.
C10_OverrideProcessCount ==
    ( /\ szret.raised # "notcalled"
      /\ ManualUsed(szcall) )
    => /\ szret = Apply([szcall EXCEPT !.num_processes = None])
       /\ szret.raised = "none" =>
            szret.min_samples =
                BigOfInt(500 * szcall.args[1].num_processes[1]
                             * szcall.reader_params.batch_size)

\* the override is in force and the argument names another process count
C10_Witness ==
    /\ szret.raised = "none"
    /\ ManualUsed(szcall)
    /\ Len(szcall.num_processes) = 1
    /\ szcall.num_processes # szcall.args[1].num_processes
    /\ szret.min_samples # <<>>


(***************************************************************************)
(* Properties of BenchmarkRun and BenchmarkVerifier, checked under Spec    *)
(***************************************************************************)
\* verify has returned a category to its caller
VerifyReturned == outcome.call = "verify" /\ outcome.raised = "none"

Has(issues, validation) == \E i \in 1..Len(issues) : issues[i].validation = validation

\* C1: verify reduces the collected finding list by fixed precedence: the
\* returned category is INVALID if at least one finding is INVALID, however
\* many CLOSED or OPEN findings are present, OPEN if no finding is INVALID and
\* at least one is OPEN, and CLOSED if no finding is INVALID or OPEN, the
\* empty list included.
C1_Precedence ==
    VerifyReturned =>
        LET issues == verifier[1].issues IN
        /\ Has(issues, INVALID) => outcome.category = INVALID
        /\ ~Has(issues, INVALID) /\ Has(issues, OPEN) => outcome.category = OPEN
        /\ ~Has(issues, INVALID) /\ ~Has(issues, OPEN) => outcome.category = CLOSED

\* a list with findings of all three categories has been reduced
C1_Witness ==
    /\ VerifyReturned
    /\ Has(verifier[1].issues, INVALID)
    /\ Has(verifier[1].issues, OPEN)
    /\ Has(verifier[1].issues, CLOSED)

\* what the checks of a checker contribute, from the k-th check on: the
\* findings of a check that returns, and for a check that raises one INVALID
\* finding with the name of the check and the text of the error; order is the
\* iteration order of sets of categories
RECURSIVE Contributions(_, _, _, _)
Contributions(rules_checker, benchmark_runs, k, order) ==
    LET methods == check_methods(rules_checker) IN
    IF k > Len(methods) THEN <<>>
    ELSE LET result == CallCheck(rules_checker, methods[k], benchmark_runs, order) IN
         (IF result.raised = "none" THEN result.issues
          ELSE <<[validation |-> INVALID,
                  message |-> "Check " \o methods[k] \o " failed with error: "
                              \o result.message,
                  parameter |-> None, expected |-> None, actual |-> None,
                  severity |-> "error"]>>)
         \o Contributions(rules_checker, benchmark_runs, k + 1, order)

Executed == SelectSeq(log, LAMBDA entry : entry[1] = "debug")
ExecutedNames == [i \in 1..Len(Executed) |-> Executed[i][2]]

\* C2: run_checks executes every check of the checker: an error that a check
\* raises is caught and becomes exactly one INVALID finding with the name of
\* the check and the text of the error, the checks after it are still
\* executed and their findings kept, and no error of a check reaches the
\* caller of verify.
C2_ChecksAreIsolated ==
    /\ VerifyReturned =>
          LET v == verifier[1] IN
          /\ ExecutedNames = check_methods(v.rules_checker[1])
          /\ \E order \in IterationOrdersOf(RunsOf(v)) :
                v.issues = Contributions(v.rules_checker[1], RunsOf(v), 1, order)
    /\ outcome.call = "verify" /\ outcome.raised \notin {"none", "running"} => log = <<>>
    /\ pc = "run_checks" => outcome.raised = "running"

\* a check has raised, and a later check has contributed a finding
C2_Witness ==
    /\ VerifyReturned
    /\ LET v == verifier[1]
           methods == check_methods(v.rules_checker[1])
       IN \E k \in 1..Len(methods) : \E later \in 1..Len(methods) :
          \E order \in IterationOrdersOf(RunsOf(v)) :
            /\ k < later
            /\ CallCheck(v.rules_checker[1], methods[k], RunsOf(v), order).raised # "none"
            /\ CallCheck(v.rules_checker[1], methods[later], RunsOf(v), order).issues # <<>>

\* the step in which verify returns from the checks of a single run
FinalStepOfSingleVerify(r) ==
    /\ pc = "run_checks"
    /\ pc' = "idle"
    /\ verifier[1].mode = "single"
    /\ verifier[1].benchmark_runs[1] = r
    /\ ck > Len(check_methods(verifier[1].rules_checker[1]))

\* C3: after verify returns in single mode the category of the run is the
\* category returned to the caller and the finding list of the run is the
\* complete list of the findings of the checks; the run is written once per
\* verification, in the step after all checks have run.
C3_WriteBack ==
    /\ [](VerifyReturned /\ verifier[1].mode = "single" =>
            LET v == verifier[1]
                run == runs[v.benchmark_runs[1]][1]
            IN /\ run.category = outcome.category
               /\ \E order \in IterationOrdersOf(RunsOf(v)) :
                     run.issues = Contributions(v.rules_checker[1], RunsOf(v), 1, order))
    /\ [][\A r \in RunIds :
            runs[r] # None /\ runs'[r] # runs[r] => FinalStepOfSingleVerify(r)]_vars

\* a run with findings has been verified in single mode
C3_Witness ==
    /\ VerifyReturned
    /\ verifier[1].mode = "single"
    /\ Len(runs[verifier[1].benchmark_runs[1]][1].issues) > 1
    /\ runs[verifier[1].benchmark_runs[1]][1].category = outcome.category

\* the arguments of a call of BenchmarkVerifier on BenchmarkRun objects
VerifierCalled(o) == o.call = "BenchmarkVerifier" /\ o.sources = <<FALSE, FALSE>>

ZeroOrMixed(o, heap) ==
    /\ VerifierCalled(o)
    /\ \/ Len(o.arguments) = 0
       \/ \E i \in 1..Len(o.arguments) : \E j \in 1..Len(o.arguments) :
            heap[o.arguments[i]][1].benchmark_type
                # heap[o.arguments[j]][1].benchmark_type

\* C4: constructing the verifier with zero runs, or with two or more runs
\* that are not all of one benchmark type, fails with an argument error that
\* reaches the caller; no check is executed and no category or finding list
\* of a run is changed.
C4_ConstructionErrors ==
    /\ [](ZeroOrMixed(outcome, runs) =>
            /\ outcome.raised = "ValueError"
            /\ verifier = None
            /\ pc = "idle")
    /\ [][ZeroOrMixed(outcome', runs) =>
            /\ runs' = runs
            /\ log' = log
            /\ pc' = pc]_vars

\* runs of two benchmark types were given after a verification had run
C4_Witness ==
    /\ ZeroOrMixed(outcome, runs)
    /\ Len(outcome.arguments) >= 2
    /\ log # <<>>
    /\ \E r \in RunIds : runs[r] # None /\ runs[r][1].category # "NONE"

\* C5: a caller of the verifier receives either a category with its finding
\* list or a construction-time error: for runs whose benchmark type has no
\* checker, constructing the verifier is a detected error, never a verifier
\* that is built without a checker and fails when verify is called.
C5_UnmatchedTypeIsConstructionError ==
    /\ Given(verifier) => Given(verifier[1].rules_checker)
    /\ outcome.call = "verify" => outcome.raised \in {"none", "running"}

\* verify has failed on a verifier that was built without a checker
C5_Witness ==
    /\ outcome.call = "verify"
    /\ outcome.raised = "AttributeError"
    /\ Given(verifier)
    /\ ~Given(verifier[1].rules_checker)
    /\ runs[verifier[1].benchmark_runs[1]][1].benchmark_type = Some(vector_database)

\* C6: a BenchmarkRun is populated from exactly one source: construction with
\* both a live benchmark and a result object, or with neither, fails with an
\* argument error; construction from a live benchmark sets post_execution to
\* false and construction from a result object sets it to true.
C6_ExactlyOneSource ==
    outcome.call = "BenchmarkRun" =>
        /\ outcome.sources[1] = outcome.sources[2] =>
              outcome.raised = "ValueError" /\ outcome.run = 0
        /\ outcome.raised = "none" =>
              /\ outcome.sources[1] # outcome.sources[2]
              /\ runs[outcome.run] # None
              /\ runs[outcome.run][1].post_execution = outcome.sources[1]

\* both sources were given, after a run was made from a result object
C6_Witness ==
    /\ outcome.call = "BenchmarkRun"
    /\ outcome.sources = <<TRUE, TRUE>>
    /\ outcome.raised = "ValueError"
    /\ \E r \in RunIds : runs[r] # None /\ runs[r][1].post_execution


(***************************************************************************)
(* Properties of the checks of a training run, checked under SpecTraining  *)
(***************************************************************************)
\* verify has returned for a single training run
TrainingVerified ==
    /\ VerifyReturned
    /\ verifier[1].rules_checker = Some("TrainingRunRulesChecker")

VerifiedRun == runs[verifier[1].benchmark_runs[1]][1]

\* the findings of the verified run that name this parameter
FindingsFor(parameter) ==
    SelectSeq(verifier[1].issues, LAMBDA issue : issue.parameter = Some(parameter))

\* the key is "workflow" or a name inside the section "workflow"
UnderWorkflow(key) ==
    \/ key = <<"workflow">>
    \/ Len(key) >= 2 /\ key[1] = "workflow" /\ key[2] = "."

NonWorkflowOverrides(run) ==
    SelectSeq(run.override_parameters, LAMBDA item : ~UnderWorkflow(item[1]))

ListedAs(key) ==
    IF key \in closed_allowed_params THEN CLOSED
    ELSE IF key \in open_allowed_params THEN OPEN
    ELSE INVALID

\* C11: the allow-list check of a training run emits exactly one finding for
\* every override key that is not under the workflow namespace, CLOSED if the
\* key is in the CLOSED-allowed list, OPEN if it is in the OPEN-allowed list
\* and INVALID otherwise; keys under the workflow namespace produce no
\* finding, so the findings are as many as the non-workflow override keys.
C11_OneFindingPerOverride ==
    TrainingVerified =>
        LET found == FindingsFor("Overrode Parameters")
            keys == NonWorkflowOverrides(VerifiedRun)
        IN /\ Len(found) = Len(keys)
           /\ \A i \in 1..Len(found) : i <= Len(keys) =>
                 found[i].validation = ListedAs(keys[i][1])

\* an override outside the workflow namespace whose name begins with
\* "workflow" was verified, and the check said nothing about it
C11_Witness ==
    /\ TrainingVerified
    /\ \E i \in 1..Len(VerifiedRun.override_parameters) :
          LET key == VerifiedRun.override_parameters[i][1] IN
          /\ StartsWith(key, <<"workflow">>)
          /\ ~UnderWorkflow(key)
    /\ Len(FindingsFor("Overrode Parameters"))
          < Len(NonWorkflowOverrides(VerifiedRun))

Unlisted(key) ==
    /\ key \notin closed_allowed_params
    /\ key \notin open_allowed_params
    /\ ~UnderWorkflow(key)

\* C12: for a training run with an override key that is in neither list and
\* not under the workflow namespace, the finding list has exactly one INVALID
\* finding for that override, the finding names the key as its parameter and
\* has expected = "None", and the run resolves to INVALID.
C12_DisallowedOverride ==
    TrainingVerified =>
        \A i \in 1..Len(VerifiedRun.override_parameters) :
            LET key == VerifiedRun.override_parameters[i][1] IN
            Unlisted(key) =>
                /\ Len(FindingsFor(Text(key))) = 1
                /\ FindingsFor(Text(key))[1].validation = INVALID
                /\ FindingsFor(Text(key))[1].expected = Some("None")
                /\ outcome.category = INVALID

\* an override in neither list was verified: its one finding has the
\* parameter "Overrode Parameters" and names the key in its message only
C12_Witness ==
    /\ TrainingVerified
    /\ VerifiedRun.override_parameters = <<OverrideItems[3]>>
    /\ FindingsFor(Text(OverrideItems[3][1])) = <<>>
    /\ Len(FindingsFor("Overrode Parameters")) = 1
    /\ FindingsFor("Overrode Parameters")[1].validation = INVALID
    /\ FindingsFor("Overrode Parameters")[1].expected = Some("None")
    /\ FindingsFor("Overrode Parameters")[1].message
          = "Disallowed parameter override: dataset.num_files_eval = 0"

OverridesDirectIO(run) ==
    \E i \in 1..Len(run.override_parameters) :
        run.override_parameters[i] = <<Key("reader", "odirect"), <<"1">>>>

\* C13: for every training run whose model is not UNET and which overrides
\* reader.odirect=1, single-run verification produces an INVALID finding
\* whose parameter is reader.odirect and resolves the run to INVALID; for
\* UNET the direct-I/O check produces no finding.
C13_DirectIO ==
    TrainingVerified =>
        /\ VerifiedRun.model # Some(UNET) /\ OverridesDirectIO(VerifiedRun) =>
              /\ \E i \in 1..Len(FindingsFor("reader.odirect")) :
                    FindingsFor("reader.odirect")[i].validation = INVALID
              /\ outcome.category = INVALID
        /\ VerifiedRun.model = Some(UNET) => FindingsFor("reader.odirect") = <<>>

\* a benchmark without combined_params that overrides reader.odirect=1 for
\* another model was verified, and no finding names reader.odirect
C13_Witness ==
    /\ TrainingVerified
    /\ VerifiedRun.model = Some(RESNET)
    /\ OverridesDirectIO(VerifiedRun)
    /\ "reader" \notin DOMAIN VerifiedRun.parameters
    /\ FindingsFor("reader.odirect") = <<>>

\* the checkpoint stage in the effective parameters of the run
CheckpointStage(run) ==
    LET workflow == Get(run.parameters, "workflow", EmptyDict) IN
    IF "checkpoint" \notin DOMAIN workflow THEN "unspecified"
    ELSE IF workflow.checkpoint THEN "enabled" ELSE "disabled"

\* C14: for a training run of UNET with command run_benchmark the workflow
\* check yields a CLOSED finding when the checkpoint stage is enabled, an
\* INVALID finding when it is explicitly disabled and no finding when it is
\* unspecified; for any other model or command it yields no finding.
C14_WorkflowCheck ==
    TrainingVerified =>
        LET found == FindingsFor("workflow.checkpoint")
            stage == CheckpointStage(VerifiedRun)
        IN
        IF VerifiedRun.model = Some(UNET) /\ VerifiedRun.command = Some("run_benchmark")
        THEN /\ stage = "enabled" => Len(found) = 1 /\ found[1].validation = CLOSED
             /\ stage = "disabled" => Len(found) = 1 /\ found[1].validation = INVALID
             /\ stage = "unspecified" => found = <<>>
        ELSE found = <<>>

\* a UNET benchmark with the checkpoint stage disabled was verified
C14_Witness ==
    /\ TrainingVerified
    /\ VerifiedRun.model = Some(UNET)
    /\ VerifiedRun.command = Some("run_benchmark")
    /\ CheckpointStage(VerifiedRun) = "disabled"
    /\ outcome.category = INVALID

\* num_files_train of the run, None when it or its section is missing
ConfiguredFiles(run) ==
    IF "dataset" \notin DOMAIN run.parameters THEN None
    ELSE IF "num_files_train" \notin DOMAIN run.parameters.dataset THEN None
    ELSE Some(run.parameters.dataset.num_files_train)

\* what the sizing returns for the cluster, the parameters and the process
\* count of the run
SizedFor(run) ==
    calculate_training_data_size(None, run.system_info, run.parameters.dataset,
                                 run.parameters.reader, run.num_processes)

\* C15: single-run verification of a training run resolves to INVALID
\* whenever dataset.num_files_train is missing or less than the
\* requiredFileCount the sizing returns for the cluster information, the
\* dataset and reader parameters and the process count of the run; when it is
\* present and at least that value the file-count check emits no finding.
C15_FileCount ==
    TrainingVerified =>
        IF ConfiguredFiles(VerifiedRun) = None THEN outcome.category = INVALID
        ELSE LET sized == SizedFor(VerifiedRun)
                 configured == BigOfInt(ConfiguredFiles(VerifiedRun)[1])
             IN
             /\ sized.raised = "none"
             /\ BigLess(configured, sized.required_file_count) =>
                   outcome.category = INVALID
             /\ ~BigLess(configured, sized.required_file_count) =>
                   FindingsFor("dataset.num_files_train") = <<>>

\* one file less than required was verified, with nothing else to report
C15_Witness ==
    /\ TrainingVerified
    /\ ConfiguredFiles(VerifiedRun) = Some(499)
    /\ SizedFor(VerifiedRun).required_file_count = BigOfInt(500)
    /\ Len(verifier[1].issues) = 1
    /\ outcome.category = INVALID


(***************************************************************************)
(* Properties of the checks of a submission                                *)
(***************************************************************************)
\* verify has returned for a submission of several runs
SubmissionVerified ==
    /\ VerifyReturned
    /\ verifier[1].mode = "multi"

\* the categories the runs of the verified submission carry
SubmissionCategories ==
    {RunsOf(verifier[1])[i].category : i \in 1..Len(verifier[1].benchmark_runs)}

\* C16: the category-consistency check of a submission takes the set of the
\* categories of its runs and emits exactly one finding: INVALID if INVALID
\* is in the set, otherwise OPEN if OPEN is in the set, otherwise CLOSED.
C16_CategoryConsistency ==
    SubmissionVerified =>
        /\ Len(FindingsFor("category")) = 1
        /\ FindingsFor("category")[1].validation =
              IF INVALID \in SubmissionCategories THEN INVALID
              ELSE IF OPEN \in SubmissionCategories THEN OPEN
              ELSE CLOSED

\* a submission of two runs that no verifier has categorised was verified:
\* the check emitted nothing and verify returned CLOSED
C16_Witness ==
    /\ SubmissionVerified
    /\ verifier[1].rules_checker = Some("TrainingSubmissionRulesChecker")
    /\ SubmissionCategories = {"NONE"}
    /\ verifier[1].issues = <<>>
    /\ outcome.category = CLOSED

\* a submission with an OPEN run and an uncategorised run was verified: the
\* check raised, and the finding of the submission is the INVALID finding of
\* the error
C16_WitnessRaised ==
    /\ SubmissionVerified
    /\ SubmissionCategories = {OPEN, "NONE"}
    /\ FindingsFor("category") = <<>>
    /\ outcome.category = INVALID


\* verify has returned for a submission of checkpointing runs
CheckpointSubmissionVerified ==
    /\ SubmissionVerified
    /\ verifier[1].rules_checker = Some("CheckpointSubmissionRulesChecker")

\* the total of a checkpoint parameter over the runs of the submission
RECURSIVE TotalOf(_, _)
TotalOf(benchmark_runs, name) ==
    IF benchmark_runs = <<>> THEN 0
    ELSE LET parameters == benchmark_runs[1].parameters
             count ==
                 IF "checkpoint" \in DOMAIN parameters
                    /\ name \in DOMAIN parameters.checkpoint
                 THEN parameters.checkpoint[name] ELSE 0
         IN  count + TotalOf(Tail(benchmark_runs), name)

TotalReads == TotalOf(RunsOf(verifier[1]), "num_checkpoints_read")
TotalWrites == TotalOf(RunsOf(verifier[1]), "num_checkpoints_write")

\* the findings of the run-count check: those that name this parameter and
\* compare a total with 10
CountFindings(parameter) ==
    SelectSeq(FindingsFor(parameter), LAMBDA issue : issue.expected = Some("10"))

\* the finding for one metric, by its total
MetricFinding(finding, total) ==
    /\ finding.validation = IF total = 10 THEN CLOSED ELSE INVALID
    /\ finding.actual = Some(ToString(total))

\* C17: the run-count check of a checkpointing submission adds up
\* num_checkpoints_read and num_checkpoints_write over all runs of the
\* submission, however they are split, and emits one finding for reads and
\* one for writes, CLOSED when the total is 10 and INVALID with the total
\* otherwise, and one more CLOSED finding exactly when both totals are 10; a
\* submission whose reads or writes do not total 10 resolves to INVALID.
C17_RunCount ==
    CheckpointSubmissionVerified =>
        LET reads == CountFindings("checkpoint.num_checkpoints_read")
            writes == CountFindings("checkpoint.num_checkpoints_write")
            both == TotalReads = 10 /\ TotalWrites = 10
        IN
        /\ Len(writes) = 1
        /\ MetricFinding(writes[1], TotalWrites)
        /\ Len(reads) = IF both THEN 2 ELSE 1
        /\ MetricFinding(reads[1], TotalReads)
        /\ both => reads[2].validation = CLOSED /\ reads[2].actual = Some("10")
        /\ ~both => outcome.category = INVALID

\* ten writes in one run and ten reads in the other: three CLOSED findings
C17_Witness ==
    /\ CheckpointSubmissionVerified
    /\ Len(verifier[1].benchmark_runs) = 2
    /\ RunsOf(verifier[1])[1].parameters = CheckpointParams(LLAMA, 10, 0)
    /\ RunsOf(verifier[1])[2].parameters = CheckpointParams(LLAMA, 0, 10)
    /\ Len(CountFindings("checkpoint.num_checkpoints_read")) = 2
    /\ ~Has(verifier[1].issues, INVALID)

\* seven reads in all beside ten writes: INVALID for reads, CLOSED for writes
C17_WitnessSevenReads ==
    /\ CheckpointSubmissionVerified
    /\ TotalReads = 7
    /\ TotalWrites = 10
    /\ CountFindings("checkpoint.num_checkpoints_read")[1].validation = INVALID
    /\ CountFindings("checkpoint.num_checkpoints_write")[1].validation = CLOSED
    /\ outcome.category = INVALID


(***************************************************************************)
(* Properties of a run read from a result directory, checked under         *)
(* SpecResult                                                              *)
(***************************************************************************)
\* BenchmarkRun(benchmark_result=...) has returned a run
RunWasRead ==
    /\ outcome.call = "BenchmarkRun"
    /\ outcome.raised = "none"
    /\ runs[outcome.run][1].post_execution

ReadRun == runs[outcome.run][1]

\* the stage is recorded as executed in the workflow section of the run
StageExecuted(run, stage) ==
    /\ "workflow" \in DOMAIN run.parameters
    /\ stage \in DOMAIN run.parameters.workflow
    /\ run.parameters.workflow[stage]

\* C18: the command of a run read from result artifacts follows the executed
\* stages: run_benchmark whenever the train stage is present, also beside
\* generate_data or checkpoint, and datagen only when generate_data is
\* present without train.
C18_CommandInference ==
    RunWasRead =>
        /\ StageExecuted(ReadRun, "train") => ReadRun.command = Some("run_benchmark")
        /\ ReadRun.command = Some("datagen") =>
              StageExecuted(ReadRun, "generate_data") /\ ~StageExecuted(ReadRun, "train")

\* a run whose configuration records both generate_data and train was read:
\* its command is datagen, and the accelerator of a run_benchmark is set
C18_Witness ==
    /\ RunWasRead
    /\ StageExecuted(ReadRun, "generate_data")
    /\ StageExecuted(ReadRun, "train")
    /\ ReadRun.command = Some("datagen")
    /\ ReadRun.accelerator = Some(<<"h100">>)

\* C19: the benchmark type of a run read from result artifacts is training
\* if the generate_data or the train stage was executed, also when the
\* checkpoint stage was executed too, and checkpointing if only the
\* checkpoint stage was executed.
C19_TypeInference ==
    RunWasRead =>
        LET staged == StageExecuted(ReadRun, "generate_data")
                      \/ StageExecuted(ReadRun, "train")
        IN
        /\ staged => ReadRun.benchmark_type = Some(training)
        /\ ~staged /\ StageExecuted(ReadRun, "checkpoint") =>
              ReadRun.benchmark_type = Some(checkpointing)

\* a run that trained and checkpointed was read as a training run
C19_Witness ==
    /\ RunWasRead
    /\ StageExecuted(ReadRun, "train")
    /\ StageExecuted(ReadRun, "checkpoint")
    /\ ~StageExecuted(ReadRun, "generate_data")
    /\ ReadRun.benchmark_type = Some(training)

\* such a run was verified by the checker of training runs
C19_WitnessVerified ==
    /\ VerifyReturned
    /\ verifier[1].rules_checker = Some("TrainingRunRulesChecker")
    /\ StageExecuted(VerifiedRun, "train")
    /\ StageExecuted(VerifiedRun, "checkpoint")
    /\ VerifiedRun.post_execution

\* a run of the checkpoint stage alone was read as a checkpointing run
C19_WitnessCheckpointOnly ==
    /\ RunWasRead
    /\ StageExecuted(ReadRun, "checkpoint")
    /\ ~StageExecuted(ReadRun, "train")
    /\ ~StageExecuted(ReadRun, "generate_data")
    /\ ReadRun.benchmark_type = Some(checkpointing)


(***************************************************************************)
(* Properties of the order of the checks, checked under SpecOrder          *)
(***************************************************************************)
\* how often a finding occurs in a list of findings
Occurrences(issues, finding) == Cardinality({i \in 1..Len(issues) : issues[i] = finding})

\* the two lists hold the same findings, each as often as the other
SameFindings(issues, others) ==
    /\ Len(issues) = Len(others)
    /\ \A i \in 1..Len(issues) :
          Occurrences(issues, issues[i]) = Occurrences(others, issues[i])

\* the findings of the checks of the verified checker in the order of dir()
InListedOrder(order) ==
    Contributions(verifier[1].rules_checker[1], RunsOf(verifier[1]), 1, order)

\* C20: the category verify returns does not depend on the order in which
\* the checks of the checker are executed: in whatever order the checks of a
\* run or of a submission are taken, the findings are the same as a multiset
\* and the category is the same as for the checks in their listed order.
C20_OrderIndependence ==
    VerifyReturned =>
        \E order \in IterationOrdersOf(RunsOf(verifier[1])) :
            /\ SameFindings(verifier[1].issues, InListedOrder(order))
            /\ outcome.category = ResolveCategory(InListedOrder(order))

\* checks with findings of all three categories were executed in another
\* order than the listed one
C20_Witness ==
    /\ VerifyReturned
    /\ \A order \in IterationOrdersOf(RunsOf(verifier[1])) :
          verifier[1].issues # InListedOrder(order)
    /\ Has(verifier[1].issues, INVALID)
    /\ Has(verifier[1].issues, OPEN)
    /\ Has(verifier[1].issues, CLOSED)
    /\ \A order \in IterationOrdersOf(RunsOf(verifier[1])) :
          verifier[1].issues[1].validation # InListedOrder(order)[1].validation

\* the two checks of a submission were executed in the other order
C20_WitnessSubmission ==
    /\ VerifyReturned
    /\ verifier[1].mode = "multi"
    /\ \A order \in IterationOrdersOf(RunsOf(verifier[1])) :
          verifier[1].issues # InListedOrder(order)
    /\ Len(verifier[1].issues) > 3


(***************************************************************************)
(* Properties of ClusterInformation, checked under SpecCluster             *)
(***************************************************************************)
\* the hosts whose memories and core counts the arrays of a summary give
RECURSIVE HostsOfSummary(_, _)
HostsOfSummary(host_memory_GB, host_cpu_count) ==
    IF host_memory_GB = <<>> \/ host_cpu_count = <<>> THEN <<>>
    ELSE <<HostInfo(host_memory_GB[1], host_cpu_count[1])>>
         \o HostsOfSummary(Tail(host_memory_GB), Tail(host_cpu_count))

\* the totals of the object are the sums over its hosts
TotalsAreSums(object) ==
    /\ object.total_memory_bytes = SumMemory(object.host_info_list)
    /\ object.total_cores = SumCores(object.host_info_list)

\* C21: whenever a ClusterInformation object holds per-host data its
\* total_memory_bytes is the sum of the memories of its hosts and its
\* total_cores the sum of their core counts, also after further calls of
\* calculate_aggregated_info; and an object made from the arrays of a
\* summary has the totals of an object made from the list of the same hosts,
\* a host of g GB having g * 2^30 bytes.
C21_AggregatedTotals ==
    /\ clusterinfo # None /\ clusterinfo[1].host_info_list # <<>> =>
          TotalsAreSums(clusterinfo[1])
    /\ outcome.call = "from_dlio_summary_json" /\ outcome.raised = "none" =>
          LET summary == outcome.arguments[1]
              listed == ClusterInformation(HostsOfSummary(summary.host_memory_GB,
                                                          summary.host_cpu_count))
          IN  /\ Len(summary.host_memory_GB) = Len(summary.host_cpu_count) =>
                    /\ clusterinfo[1].total_memory_bytes = listed.total_memory_bytes
                    /\ clusterinfo[1].total_cores = listed.total_cores

\* calculate_aggregated_info was called again on an object of two hosts: the
\* totals are twice the sums
C21_Witness ==
    /\ outcome.call = "calculate_aggregated_info"
    /\ Len(clusterinfo[1].host_info_list) = 2
    /\ clusterinfo[1].total_cores = 2 * SumCores(clusterinfo[1].host_info_list)
    /\ clusterinfo[1].total_cores > 0
    /\ clusterinfo[1].total_memory_bytes
          = BigAdd(SumMemory(clusterinfo[1].host_info_list),
                   SumMemory(clusterinfo[1].host_info_list))

\* the two ways of construction agree on the totals
C21_SameTotals ==
    outcome.call = "from_dlio_summary_json" /\ outcome.raised = "none" =>
        LET summary == outcome.arguments[1]
            listed == ClusterInformation(HostsOfSummary(summary.host_memory_GB,
                                                        summary.host_cpu_count))
        IN  Len(summary.host_memory_GB) = Len(summary.host_cpu_count) =>
                /\ clusterinfo[1].total_memory_bytes = listed.total_memory_bytes
                /\ clusterinfo[1].total_cores = listed.total_cores


(***************************************************************************)
(* Properties of verify in multi mode, checked under Spec                  *)
(***************************************************************************)
\* C22: in multi mode verify returns CLOSED only if every run of the
\* submission already carries the category CLOSED: a submission with a run
\* that is INVALID, OPEN or not yet categorised never resolves to CLOSED.
C22_ClosedOnlyIfAllClosed ==
    SubmissionVerified /\ outcome.category = CLOSED => SubmissionCategories = {CLOSED}

\* a submission of a CLOSED run and a run that was never verified was
\* resolved to CLOSED
C22_Witness ==
    /\ SubmissionVerified
    /\ SubmissionCategories = {CLOSED, "NONE"}
    /\ outcome.category = CLOSED

\* a step of verify on a submission
SubmissionVerifyStep ==
    /\ Given(verifier)
    /\ verifier[1].mode = "multi"
    /\ outcome'.call = "verify"

\* C23: in multi mode verify leaves the category and the finding list of
\* every run it was given as they are; the findings of the submission are in
\* the finding list of the verifier and the category is the returned value.
C23_RunsUntouched ==
    [][SubmissionVerifyStep =>
          /\ runs' = runs
          /\ pc = "run_checks" /\ pc' = "idle" /\ outcome'.raised = "none" =>
                /\ \E order \in IterationOrdersOf(RunsOf(verifier[1])) :
                      verifier'[1].issues
                         = Contributions(verifier[1].rules_checker[1],
                                         RunsOf(verifier[1]), 1, order)
                /\ outcome'.category = ResolveCategory(verifier'[1].issues)]_vars

\* a submission was resolved to INVALID with findings of its own, and none
\* of its runs has a finding or the category INVALID
C23_Witness ==
    /\ SubmissionVerified
    /\ outcome.category = INVALID
    /\ Has(verifier[1].issues, INVALID)
    /\ \A i \in 1..Len(verifier[1].benchmark_runs) :
          /\ RunsOf(verifier[1])[i].issues = <<>>
          /\ RunsOf(verifier[1])[i].category # INVALID
    /\ CLOSED \in SubmissionCategories


\* verify has returned for a single checkpointing run
CheckpointingRunVerified ==
    /\ VerifyReturned
    /\ verifier[1].mode = "single"
    /\ VerifiedRun.benchmark_type = Some(checkpointing)

\* C24: single-run verification of a checkpointing run produces an empty
\* finding list and resolves the run to CLOSED, whatever its parameters,
\* overrides and model are.
C24_CheckpointingRunIsClosed ==
    CheckpointingRunVerified =>
        /\ verifier[1].issues = <<>>
        /\ outcome.category = CLOSED
        /\ VerifiedRun.category = CLOSED
        /\ VerifiedRun.issues = <<>>

\* a checkpointing run with a disallowed override and twenty operations in
\* all was verified
C24_Witness ==
    /\ CheckpointingRunVerified
    /\ VerifiedRun.override_parameters # <<>>
    /\ VerifiedRun.category = CLOSED

\* a checkpointing run without any checkpoint operation was verified
C24_WitnessNoOperations ==
    /\ CheckpointingRunVerified
    /\ VerifiedRun.parameters = NoCheckpointParams(LLAMA)
    /\ VerifiedRun.category = CLOSED


(***************************************************************************)
(* Properties of Evaluator.evaluate, checked under SpecEvaluate            *)
(***************************************************************************)
\* the score is in the range the search announced
ScoreInRange ==
    /\ search.score >= search.announced[1]
    /\ search.score <= search.announced[2]
    /\ search.score >= 1

\* C25: the search loop of evaluate terminates for every baseline count of
\* at least 1 and all outcomes of the tests, and the score recorded at its
\* end is in the announced range [1, 2 * baseline], never below 1.
C25_TerminatesInRange ==
    /\ (search.pc = "loop") ~> (search.pc = "done")
    /\ [](search.pc = "done" =>
             ScoreInRange /\ search.num_accelerators = search.score)

\* from a baseline of 1 and a failed first test the loop has come to test 0
\* accelerators with the range [1, -1], and another failure leaves it there
C25_Witness ==
    /\ search.pc = "loop"
    /\ search.announced = <<1, 2>>
    /\ search.cur_acc = 0
    /\ search.min_acc > search.max_acc
    /\ SearchTurn(search, 69) = search

\* the search ended with the score 0
C25_WitnessScoreZero ==
    /\ search.pc = "done"
    /\ search.announced = <<1, 2>>
    /\ search.score = 0
    /\ search.num_accelerators = 0

\* for a baseline of 2 or more the score is in the announced range
C25_RangeFromTwo ==
    search.pc = "done" /\ search.announced[2] >= 4 =>
        ScoreInRange /\ search.cur_acc >= 1

=============================================================================
